---- MODULE Spec2Model ----
(***************************************************************************)
(* Model of the concurrent data-ingestion core of rpi-crypto-ticker-display *)
(* (src/app.py, src/src/*.py): the shared store, the candle building in     *)
(* update_ticker_data, the feed workers and the render loop that reads the  *)
(* store.                                                                    *)
(*                                                                           *)
(* Time is counted in ticks, TicksPerSecond ticks to a second, so that      *)
(* int(now) is a real truncation.  Python's None is the value None for the  *)
(* numeric fields and NoCandle for a candle.                                 *)
(***************************************************************************)
EXTENDS Integers, Sequences, FiniteSets, TLC

\* ---------------------------------------------------------------- bounds
TicksPerSecond == 2
MaxClock == 5
MaxPrice == 2
MaxBars == 4
MaxUpdates == 3
MaxSleeps == 11

\* ------------------------------------------------------- program constants
\* candle_seconds and max_candles of config.json, taken small
CANDLE_SECONDS == 2
MAX_CANDLES == 2
KLINE_SECONDS == 60

None == -1
Free == "free"
Prices == 1..MaxPrice
Changes == {0}

CandleTicks == CANDLE_SECONDS * TicksPerSecond
KlineTicks == KLINE_SECONDS * TicksPerSecond

Max(a, b) == IF a >= b THEN a ELSE b
Min(a, b) == IF a <= b THEN a ELSE b

\* int(now): truncation of a time in ticks to whole seconds, still in ticks
IntSeconds(t) == (t \div TicksPerSecond) * TicksPerSecond

NoCandle == [start |-> 0, open |-> None, high |-> None, low |-> None, close |-> None]

\* an append that never evicts
DequeAppendUnbounded(q, x) == q \o <<x>>

\* deque(maxlen=MAX_CANDLES).append
DequeAppend(q, x) ==
    IF Len(q) >= MAX_CANDLES THEN Tail(q) \o <<x>> ELSE q \o <<x>>

\* Binance klines are OHLC bars: high is the largest and low the smallest value
OHLC ==
    { b \in [open : Prices, high : Prices, low : Prices, close : Prices] :
        /\ b.high >= Max(b.open, b.close)
        /\ b.low <= Min(b.open, b.close) }

\* the bars a klines response is drawn from: rising bars
KlineBars == { b \in OHLC : b.open = b.low /\ b.close = b.high }

\* o_time / 1000.0: kline open time in milliseconds to a time in ticks
MsToTicks(ms) == (ms * TicksPerSecond) \div 1000

Keys == {"btcusdt", "runecoin"}
\* marquee_symbols of config.json
MarqueeKeys == Keys
\* app.py: the source of a key
Source(key) == IF key = "runecoin" THEN "coingecko" ELSE "binance"
Threads == {"main", "binance", "kraken", "coingecko", "mempool", "miners"}

VARIABLES
    clock,        \* time.time(), in ticks
    pc,           \* position of every thread
    data,         \* src.data.data: key -> TickerData
    data_lock,    \* holder of data_lock, or Free
    upd,          \* locals of update_ticker_data, per calling thread
    klines,       \* local of fetch_initial_binance: the klines response
    ver,          \* history: which update wrote price / last_update / candle
    nupd,         \* history: number of update_ticker_data calls so far
    rd,           \* locals of run_render_loop: what the tick has read so far
    marquee,      \* local_surfaces of run_render_loop: the price each entry shows
    last_marquee_rebuild,       \* local of run_render_loop
    last_known_marquee_prices,  \* rendering.last_known_marquee_prices
    wifi_ok,      \* helpers.wifi_ok
    last_wifi_check,            \* helpers.last_wifi_check
    binance_ws_status,          \* websockets.binance_ws_status (the callbacks' global)
    kraken_ws_status,           \* websockets.kraken_ws_status (the callbacks' global)
    helpers_binance_ws_status,  \* helpers.binance_ws_status (bound by the import)
    helpers_kraken_ws_status,   \* helpers.kraken_ws_status (bound by the import)
    backoff,      \* local backoff of run_binance_websocket / run_kraken_websocket
    drv,          \* history per streaming driver: failures, opened, last sleep
    cg,           \* locals of run_coingecko_polling
    mempool_data, \* src.data.mempool_data
    fees_lock,    \* holder of fees_lock, or Free
    mp,           \* locals of run_mempool_polling
    miner_stats,  \* src.data.miner_stats
    hash_history, \* src.data.hash_history
    miners_lock,  \* holder of miners_lock, or Free
    mn,           \* locals of run_miners_polling
    futures       \* history: what each endpoint's future of the cycle returned

tickerVars == <<data, data_lock, upd, klines, ver, nupd>>
marqueeVars == <<marquee, last_marquee_rebuild, last_known_marquee_prices>>
renderVars == <<rd, wifi_ok, last_wifi_check, marqueeVars>>
streamVars == <<binance_ws_status, kraken_ws_status, helpers_binance_ws_status,
                helpers_kraken_ws_status, backoff, drv>>
pollVars == <<cg>>
mempoolVars == <<mempool_data, fees_lock, mp>>
minerVars == <<miner_stats, hash_history, miners_lock, mn, futures>>
vars == <<clock, pc, tickerVars, renderVars, streamVars, pollVars, mempoolVars, minerVars>>

notTicker == <<renderVars, streamVars, pollVars, mempoolVars, minerVars>>

\* TickerData.__init__
TickerData(source) ==
    [price |-> None, change_24h |-> 0, status |-> "Connecting", last_update |-> None,
     candles |-> <<>>, current_candle |-> NoCandle, source |-> source,
     last_marquee_price |-> None]

NoUpd == [key |-> "btcusdt", now |-> 0, price |-> None, change |-> 0, id |-> 0, ret |-> "none"]

\* mempool_data as created in data.py: all five fields None
NoStats == [fees_sats_vb |-> None, block_height |-> None, mining_pool |-> None,
            network_hashrate_eh |-> None, network_difficulty |-> None]

NoRead == [now |-> 0, price |-> None, price_ver |-> 0, last_update |-> None,
           time_ver |-> 0, candle_ver |-> 0, shown |-> "none",
           ws_now |-> 0, ws_color |-> "none", ws_seen |-> <<"none", "none">>,
           net |-> NoStats, total_hr |-> None]

\* the store as data.py and app.py build it, the program starting at time t0
TickerInitAt(t0) ==
    /\ clock = t0
    /\ data = [k \in Keys |-> TickerData(Source(k))]
    /\ data_lock = Free
    /\ upd = [t \in Threads |-> NoUpd]
    /\ klines = <<>>
    /\ ver = [k \in Keys |-> [price |-> 0, time |-> 0, candle |-> 0, evicted |-> FALSE]]
    /\ nupd = 0

TickerInit == TickerInitAt(0)

\* ------------------------------------------------------------------ time
Tick ==
    /\ clock < MaxClock
    /\ clock' = clock + 1
    /\ UNCHANGED <<pc, tickerVars, notTicker>>

\* the last tick of a minute of the exchange's one-minute bars
MinuteEnd == KlineTicks - 1

\* time passes from the end of one minute into the next
TickOverMinute ==
    /\ clock >= MinuteEnd
    /\ clock < MinuteEnd + MaxClock
    /\ clock' = clock + 1
    /\ UNCHANGED <<pc, tickerVars, notTicker>>

\* a whole bucket width passes at once, up to two of them beyond MaxClock
LateClock == MaxClock + 2 * CandleTicks

Silence ==
    /\ clock + CandleTicks <= LateClock
    /\ clock' = clock + CandleTicks
    /\ UNCHANGED <<pc, tickerVars, notTicker>>

\* --------------------------------------------- helpers.update_ticker_data
\* The call: the caller passes key, price and change and resumes at ret.
CallUpdate(t, key, price, change, ret) ==
    /\ nupd < MaxUpdates
    /\ nupd' = nupd + 1
    /\ upd' = [upd EXCEPT ![t] = [key |-> key, now |-> 0, price |-> price,
                                  change |-> change, id |-> nupd + 1, ret |-> ret]]
    /\ pc' = [pc EXCEPT ![t] = "utd_now"]
    /\ UNCHANGED <<clock, data, data_lock, klines, ver>>

\* now = time.time(), before the lock is taken
utd_now(t) ==
    /\ pc[t] = "utd_now"
    /\ upd' = [upd EXCEPT ![t].now = clock]
    /\ pc' = [pc EXCEPT ![t] = "utd_lock"]
    /\ UNCHANGED <<clock, data, data_lock, ver, nupd, klines, notTicker>>

\* with data_lock:
utd_lock(t) ==
    /\ pc[t] = "utd_lock"
    /\ data_lock = Free
    /\ data_lock' = t
    /\ pc' = [pc EXCEPT ![t] = "utd_head"]
    /\ UNCHANGED <<clock, data, upd, ver, nupd, klines, notTicker>>

\* ticker.price = price; ticker.change_24h = change; ticker.status = "Live"
utd_head(t) ==
    /\ pc[t] = "utd_head"
    /\ data' = [data EXCEPT ![upd[t].key] =
                  [@ EXCEPT !.price = upd[t].price, !.change_24h = upd[t].change,
                            !.status = "Live"]]
    /\ ver' = [ver EXCEPT ![upd[t].key].price = upd[t].id]
    /\ pc' = [pc EXCEPT ![t] = "utd_time"]
    /\ UNCHANGED <<clock, data_lock, upd, nupd, klines, notTicker>>

\* ticker.last_update = now; ticker.last_marquee_price = price
\* (update_marquee is True at every call site)
utd_time(t) ==
    /\ pc[t] = "utd_time"
    /\ data' = [data EXCEPT ![upd[t].key] =
                  [@ EXCEPT !.last_update = upd[t].now,
                            !.last_marquee_price = upd[t].price]]
    /\ ver' = [ver EXCEPT ![upd[t].key].time = upd[t].id]
    /\ pc' = [pc EXCEPT ![t] = "utd_candle"]
    /\ UNCHANGED <<clock, data_lock, upd, nupd, klines, notTicker>>

\* a test that opens a new candle at every sample
RolloverAlways(candle, now) == TRUE

\* candle is None or now - candle["start"] >= CANDLE_SECONDS
Rollover(candle, now) ==
    candle = NoCandle \/ now - candle.start >= CandleTicks

\* a candle whose start is floored to a multiple of the bucket width
NewCandleAligned(now, price) ==
    [start |-> (now \div CandleTicks) * CandleTicks, open |-> price, high |-> price,
     low |-> price, close |-> price]

\* "start": int(now)
NewCandle(now, price) ==
    [start |-> IntSeconds(now), open |-> price, high |-> price, low |-> price,
     close |-> price]

\* a widening that forgets the high
WidenCandleNoHigh(candle, price) ==
    [candle EXCEPT !.low = Min(candle.low, price), !.close = price]

WidenCandle(candle, price) ==
    [candle EXCEPT !.high = Max(candle.high, price), !.low = Min(candle.low, price),
                   !.close = price]

\* a rollover that also closes a flat candle for a bucket that saw no sample
BuildCandleFillsGaps(ticker, now, price) ==
    LET cur == ticker.current_candle
        closed == IF cur # NoCandle THEN DequeAppend(ticker.candles, cur)
                  ELSE ticker.candles
        flat == [start |-> cur.start + CandleTicks, open |-> cur.close,
                 high |-> cur.close, low |-> cur.close, close |-> cur.close]
    IN  IF Rollover(cur, now)
        THEN [ticker EXCEPT
                !.candles = IF cur # NoCandle /\ now - cur.start >= 2 * CandleTicks
                            THEN DequeAppend(closed, flat)
                            ELSE closed,
                !.current_candle = NewCandle(now, price)]
        ELSE [ticker EXCEPT !.current_candle = WidenCandle(cur, price)]

\* the candle-building branch of update_ticker_data, applied to one ticker
BuildCandle(ticker, now, price) ==
    IF Rollover(ticker.current_candle, now)
    THEN [ticker EXCEPT
            !.candles = IF ticker.current_candle # NoCandle
                        THEN DequeAppend(ticker.candles, ticker.current_candle)
                        ELSE ticker.candles,
            !.current_candle = NewCandle(now, price)]
    ELSE [ticker EXCEPT !.current_candle = WidenCandle(ticker.current_candle, price)]

\* the candle branch and the end of the with block
utd_candle(t) ==
    /\ pc[t] = "utd_candle"
    /\ data' = [data EXCEPT ![upd[t].key] = BuildCandle(@, upd[t].now, upd[t].price)]
    /\ ver' = [ver EXCEPT ![upd[t].key].candle = upd[t].id,
                          ![upd[t].key].evicted =
                              \/ @
                              \/ /\ Rollover(data[upd[t].key].current_candle, upd[t].now)
                                 /\ data[upd[t].key].current_candle # NoCandle
                                 /\ Len(data[upd[t].key].candles) = MAX_CANDLES]
    /\ data_lock' = Free
    /\ pc' = [pc EXCEPT ![t] = upd[t].ret]
    /\ UNCHANGED <<clock, upd, nupd, klines, notTicker>>

update_ticker_data(t) ==
    utd_now(t) \/ utd_lock(t) \/ utd_head(t) \/ utd_time(t) \/ utd_candle(t)

\* ------------------------------------------ websockets.fetch_initial_binance
\* The klines response: n one-minute bars, the last one still open at now.
\* Each bar is <<open time in ms, open, high, low, close>>.
Klines(n, b, now) ==
    LET lastMs == ((now \div KlineTicks) * KLINE_SECONDS) * 1000
    IN  [i \in 1..n |-> <<lastMs - (n - i) * KLINE_SECONDS * 1000,
                          b.open, b.high, b.low, b.close>>]

KlineCandle(kline) ==
    [start |-> MsToTicks(kline[1]), open |-> kline[2], high |-> kline[3],
     low |-> kline[4], close |-> kline[5]]

\* a history that keeps the oldest bars once it is full
RECURSIVE AppendKlinesOldest(_, _)
AppendKlinesOldest(q, bars) ==
    IF bars = <<>> \/ Len(q) >= MAX_CANDLES THEN q
    ELSE AppendKlinesOldest(q \o <<KlineCandle(Head(bars))>>, Tail(bars))

RECURSIVE AppendKlines(_, _)
AppendKlines(q, bars) ==
    IF bars = <<>> THEN q
    ELSE AppendKlines(DequeAppend(q, KlineCandle(Head(bars))), Tail(bars))

\* a bootstrap that also files the still-open bar in the closed history
BootstrapTickerClosesOpen(ticker, bars) ==
    IF bars = <<>>
    THEN [ticker EXCEPT !.candles = <<>>]
    ELSE [ticker EXCEPT
            !.candles = AppendKlines(<<>>, bars),
            !.current_candle = KlineCandle(bars[Len(bars)])]

\* the with data_lock block of fetch_initial_binance; klines[-1] of an empty
\* list raises after the history was cleared
BootstrapTicker(ticker, bars) ==
    IF bars = <<>>
    THEN [ticker EXCEPT !.candles = <<>>]
    ELSE [ticker EXCEPT
            !.candles = AppendKlines(<<>>, SubSeq(bars, 1, Len(bars) - 1)),
            !.current_candle = KlineCandle(bars[Len(bars)])]

\* requests.get(ticker/24hr): an exception ends the bootstrap, a response is
\* handed to update_ticker_data
fib_ticker ==
    /\ pc["main"] = "fib_ticker"
    /\ \/ /\ pc' = [pc EXCEPT !["main"] = "start"]
          /\ UNCHANGED <<clock, tickerVars, notTicker>>
       \/ /\ \E price \in Prices, change \in Changes :
                CallUpdate("main", "btcusdt", price, change, "fib_klines")
          /\ UNCHANGED notTicker

\* requests.get(klines): an exception ends the bootstrap, a response is kept
fib_klines ==
    /\ pc["main"] = "fib_klines"
    /\ \/ /\ pc' = [pc EXCEPT !["main"] = "start"]
          /\ UNCHANGED klines
       \/ /\ \E n \in 0..MaxBars, b \in KlineBars : klines' = Klines(n, b, clock)
          /\ pc' = [pc EXCEPT !["main"] = "fib_lock"]
    /\ UNCHANGED <<clock, data, data_lock, upd, ver, nupd, notTicker>>

\* with data_lock:
fib_lock ==
    /\ pc["main"] = "fib_lock"
    /\ data_lock = Free
    /\ data_lock' = "main"
    /\ pc' = [pc EXCEPT !["main"] = "fib_store"]
    /\ UNCHANGED <<clock, data, upd, klines, ver, nupd, notTicker>>

\* fib_store with a lock that the IndexError of an empty klines list leaves held
fib_storeLeaks ==
    /\ pc["main"] = "fib_store"
    /\ data' = [data EXCEPT !["btcusdt"] = BootstrapTicker(@, klines)]
    /\ data_lock' = IF klines = <<>> THEN data_lock ELSE Free
    /\ klines' = <<>>
    /\ pc' = [pc EXCEPT !["main"] = "start"]
    /\ UNCHANGED <<clock, upd, ver, nupd, notTicker>>

\* the body of the with block and its end (also left by the IndexError)
fib_store ==
    /\ pc["main"] = "fib_store"
    /\ data' = [data EXCEPT !["btcusdt"] = BootstrapTicker(@, klines)]
    /\ data_lock' = Free
    /\ klines' = <<>>
    /\ pc' = [pc EXCEPT !["main"] = "start"]
    /\ UNCHANGED <<clock, upd, ver, nupd, notTicker>>

fetch_initial_binance == fib_ticker \/ fib_klines \/ fib_lock \/ fib_store

\* ---------------------------------------------------------------- app.py
\* where each thread is once app.py has started the workers
StartedPc ==
    [t \in Threads |->
        CASE t = "main" -> "r_top"
          [] t = "binance" -> "binance_top"
          [] t = "kraken" -> "kraken_top"
          [] t = "coingecko" -> "cg_sleep"
          [] t = "mempool" -> "mp_fees"
          [] t = "miners" -> "mn_top"]

\* the worker threads are started and the main thread enters the render loop
StartThreads ==
    /\ pc["main"] = "start"
    /\ pc' = StartedPc
    /\ UNCHANGED <<clock, tickerVars, notTicker>>

\* --------------------------------------------- websockets: streaming drivers
Drivers == {"binance", "kraken"}

RECURSIVE Pow(_, _)
Pow(b, e) == IF e = 0 THEN 1 ELSE b * Pow(b, e - 1)

\* Delays are counted in units of 5^-9 s: every value 1.8^k = 9^k / 5^k below
\* the cap is a whole number of them (1.8^9 is already above 120).
BackoffUnit == Pow(5, 9)
InitialBackoff == 1 * BackoffUnit
BACKOFF_CAP == 120

\* a multiplier that is never capped
NextBackoffUncapped(b) == IF b < BACKOFF_CAP * BackoffUnit THEN (b * 9) \div 5 ELSE b

\* min(backoff * 1.8, 120); 1.8 = 9/5
NextBackoff(b) == Min((b * 9) \div 5, BACKOFF_CAP * BackoffUnit)

NoHistory == [sleeps |-> 0, slept |-> 0, prev |-> 0,
              opened |-> FALSE, wasLive |-> FALSE, afterLive |-> FALSE,
              dropAt |-> 0, idled |-> FALSE]

StreamInit ==
    /\ binance_ws_status = "Connecting..."
    /\ kraken_ws_status = "Connecting..."
    /\ helpers_binance_ws_status = "Connecting..."
    /\ helpers_kraken_ws_status = "Connecting..."
    /\ backoff = [d \in Drivers |-> InitialBackoff]
    /\ drv = [d \in Drivers |-> NoHistory]

\* global binance_ws_status / kraken_ws_status in websockets.py: the callbacks
\* rebind the name of their own module
SetStatus(d, s) ==
    /\ IF d = "binance"
       THEN binance_ws_status' = s /\ UNCHANGED kraken_ws_status
       ELSE kraken_ws_status' = s /\ UNCHANGED binance_ws_status
    /\ UNCHANGED <<helpers_binance_ws_status, helpers_kraken_ws_status>>

notStream == <<tickerVars, renderVars, pollVars, mempoolVars, minerVars>>

\* binance_symbols of run_binance_websocket: the tickers whose source is
\* binance (every configured symbol has a ticker)
BinanceSymbols == {k \in Keys : data[k].source = "binance"}

\* a loop that sets the status back to the initial one before it connects
ws_topSetsConnecting(d) ==
    /\ pc[d] = d \o "_top"
    /\ IF d = "binance" /\ BinanceSymbols = {}
       THEN /\ pc' = [pc EXCEPT ![d] = "binance_idle"]
            /\ UNCHANGED <<binance_ws_status, kraken_ws_status,
                           helpers_binance_ws_status, helpers_kraken_ws_status>>
       ELSE /\ SetStatus(d, "Connecting...")
            /\ pc' = [pc EXCEPT ![d] = d \o "_connecting"]
    /\ UNCHANGED <<clock, backoff, drv, notStream>>

\* a loop that connects whatever the subscription set is
ws_topAlwaysConnects(d) ==
    /\ pc[d] = d \o "_top"
    /\ pc' = [pc EXCEPT ![d] = d \o "_connecting"]
    /\ UNCHANGED <<clock, streamVars, notStream>>

\* top of the while loop: the Binance driver computes binance_symbols and
\* idles when there is none; otherwise the WebSocketApp is built and
\* run_forever is entered
ws_top(d) ==
    /\ pc[d] = d \o "_top"
    /\ pc' = [pc EXCEPT ![d] = IF d = "binance" /\ BinanceSymbols = {}
                               THEN "binance_idle" ELSE d \o "_connecting"]
    /\ UNCHANGED <<clock, streamVars, notStream>>

\* time.sleep(10); continue
ws_idle ==
    /\ pc["binance"] = "binance_idle"
    /\ drv' = [drv EXCEPT !["binance"].idled = TRUE]
    /\ pc' = [pc EXCEPT !["binance"] = "binance_top"]
    /\ UNCHANGED <<clock, binance_ws_status, kraken_ws_status,
                   helpers_binance_ws_status, helpers_kraken_ws_status, backoff,
                   notStream>>

\* binance_on_open / kraken_on_open
ws_on_open(d) ==
    /\ pc[d] = d \o "_connecting"
    /\ SetStatus(d, "Live")
    /\ drv' = [drv EXCEPT ![d].opened = TRUE, ![d].wasLive = TRUE]
    /\ pc' = [pc EXCEPT ![d] = d \o "_live"]
    /\ UNCHANGED <<clock, backoff, notStream>>

\* ws_on_error that also marks the tickers of the feed: status "Error"
ws_on_errorMarksTickers(d) ==
    /\ pc[d] \in {d \o "_connecting", d \o "_live"}
    /\ SetStatus(d, "Error")
    /\ data' = [k \in Keys |->
                  IF data[k].source = d THEN [data[k] EXCEPT !.status = "Error"]
                  ELSE data[k]]
    /\ pc' = [pc EXCEPT ![d] = d \o "_errored"]
    /\ UNCHANGED <<clock, backoff, drv, data_lock, upd, klines, ver, nupd,
                   renderVars, pollVars, mempoolVars, minerVars>>

\* binance_on_error / kraken_on_error: a failed connect or a transport error
ws_on_error(d) ==
    /\ pc[d] \in {d \o "_connecting", d \o "_live"}
    /\ SetStatus(d, "Error")
    /\ pc' = [pc EXCEPT ![d] = d \o "_errored"]
    /\ UNCHANGED <<clock, backoff, drv, notStream>>

\* a close handler that also forgets every ticker's price
ws_on_closeClearsTickers(d) ==
    /\ pc[d] \in {d \o "_errored", d \o "_live"}
    /\ SetStatus(d, "Reconnecting...")
    /\ pc' = [pc EXCEPT ![d] = d \o "_sleep"]
    /\ data' = [k \in Keys |-> [data[k] EXCEPT !.price = None, !.status = "Stale"]]
    /\ UNCHANGED <<clock, backoff, drv, data_lock, upd, klines, ver, nupd, renderVars,
                   pollVars, mempoolVars, minerVars>>

\* binance_on_close / kraken_on_close: after an error, or a close by the peer;
\* run_forever returns
ws_on_close(d) ==
    /\ pc[d] \in {d \o "_errored", d \o "_live"}
    /\ SetStatus(d, "Reconnecting...")
    /\ pc' = [pc EXCEPT ![d] = d \o "_sleep"]
    /\ UNCHANGED <<clock, backoff, drv, notStream>>

\* a driver that gives up once its delay has reached the cap
ws_sleepGivesUp(d) ==
    /\ pc[d] = d \o "_sleep"
    /\ drv' = [drv EXCEPT ![d] =
                 [@ EXCEPT !.sleeps = Min(@ + 1, MaxSleeps),
                           !.prev = drv[d].slept,
                           !.slept = backoff[d],
                           !.afterLive = drv[d].wasLive,
                           !.wasLive = FALSE]]
    /\ backoff' = [backoff EXCEPT ![d] = NextBackoff(@)]
    /\ pc' = [pc EXCEPT ![d] = IF backoff[d] >= BACKOFF_CAP * BackoffUnit
                               THEN d \o "_stopped" ELSE d \o "_top"]
    /\ UNCHANGED <<clock, binance_ws_status, kraken_ws_status,
                   helpers_binance_ws_status, helpers_kraken_ws_status, notStream>>

\* time.sleep(backoff); backoff = min(backoff * 1.8, 120)
ws_sleep(d) ==
    /\ pc[d] = d \o "_sleep"
    /\ drv' = [drv EXCEPT ![d] =
                 [@ EXCEPT !.sleeps = Min(@ + 1, MaxSleeps),
                           !.prev = drv[d].slept,
                           !.slept = backoff[d],
                           !.afterLive = drv[d].wasLive,
                           !.wasLive = FALSE]]
    /\ backoff' = [backoff EXCEPT ![d] = NextBackoff(@)]
    /\ pc' = [pc EXCEPT ![d] = d \o "_top"]
    /\ UNCHANGED <<clock, binance_ws_status, kraken_ws_status,
                   helpers_binance_ws_status, helpers_kraken_ws_status, notStream>>

\* binance_on_message without the test of the source: any key of the store
binance_on_messageAnySource ==
    /\ pc["binance"] = "binance_live"
    /\ \E key \in Keys, price \in Prices, change \in Changes :
          CallUpdate("binance", key, price, change, "binance_live")
    /\ UNCHANGED notTicker

\* binance_on_message with a ticker of a binance symbol
binance_on_message ==
    /\ pc["binance"] = "binance_live"
    /\ \E price \in Prices, change \in Changes :
          CallUpdate("binance", "btcusdt", price, change, "binance_live")
    /\ UNCHANGED notTicker

\* the text of a member that float() does not accept
Unreadable == None - 1

\* A text frame of the Binance stream: whether it is JSON, and its "s", "c"
\* and "P" members (None for a member that is absent, "" for an absent "s").
BinanceMessages ==
    [json : BOOLEAN, s : Keys \cup {"", "ethusdt"}, c : Prices \cup {None, Unreadable},
     P : Changes \cup {None, Unreadable}]

\* binance_on_message up to the call of update_ticker_data: TRUE when the
\* call is reached, FALSE when the handler returns or its except clause logs
BinanceParses(m) ==
    /\ m.json
    /\ m.s \in Keys /\ Source(m.s) = "binance"
    /\ m.c \in Prices
    /\ m.P \in Changes

\* A text frame of the Kraken stream: event objects, lists that are no ticker
\* update, tickers of a pair that is not configured, tickers without or with
\* unreadable "c" / "o" (no ticker of the store has the source kraken)
KrakenMessages ==
    [json : BOOLEAN, shape : {"event", "short", "ticker"}, pair : {"ETH/USD"},
     c : Prices \cup {None, Unreadable}]

\* kraken_on_message up to the call of update_ticker_data
KrakenParses(m) ==
    /\ m.json
    /\ m.shape = "ticker"
    /\ \E k \in Keys : Source(k) = "kraken"
    /\ m.c \in Prices

\* the frames of driver d's stream that do not reach update_ticker_data
DroppedFrames(d) ==
    IF d = "binance"
    THEN {m \in BinanceMessages : ~BinanceParses(m)}
    ELSE {m \in KrakenMessages : ~KrakenParses(m)}

\* a handler whose exception reaches the client library, which reports it
\* through on_error
ws_message_droppedRaises(d) ==
    /\ pc[d] = d \o "_live"
    /\ DroppedFrames(d) # {}
    /\ drv' = [drv EXCEPT ![d].dropAt = nupd + 1]
    /\ SetStatus(d, "Error")
    /\ pc' = [pc EXCEPT ![d] = d \o "_errored"]
    /\ UNCHANGED <<clock, backoff, notStream>>

\* binance_on_message / kraken_on_message with a frame that does not reach
\* update_ticker_data: the handler returns, or logs the exception
ws_message_dropped(d) ==
    /\ pc[d] = d \o "_live"
    /\ DroppedFrames(d) # {}
    /\ drv' = [drv EXCEPT ![d].dropAt = nupd + 1]
    /\ UNCHANGED <<clock, pc, binance_ws_status, kraken_ws_status,
                   helpers_binance_ws_status, helpers_kraken_ws_status, backoff,
                   notStream>>

run_binance_websocket ==
    \/ ws_top("binance") \/ ws_idle
    \/ ws_on_open("binance") \/ ws_on_error("binance")
    \/ ws_on_close("binance") \/ ws_sleep("binance")

run_kraken_websocket ==
    \/ ws_top("kraken") \/ ws_on_open("kraken") \/ ws_on_error("kraken")
    \/ ws_on_close("kraken") \/ ws_sleep("kraken")

\* ------------------------------------------------------ helpers.get_ws_color
\* wifi_check_interval of config.json, in seconds, taken small
WIFI_CHECK_INTERVAL == 1
\* last_wifi_check = 0.0 is the Unix epoch, far before the process started
EpochZero == 0 - 100000

Lower(s) ==
    CASE s = "Live" -> "live"
      [] s = "Error" -> "error"
      [] s = "Connecting..." -> "connecting..."
      [] s = "Reconnecting..." -> "reconnecting..."

BinanceOkPhrases ==
    {"websocket connected", "binance ws connected", "connected", "live", "open",
     "connecting...", "subscription sent"}
KrakenOkPhrases ==
    {"websocket connected", "kraken subscription sent", "connected", "live", "open",
     "connecting...", "subscription sent"}

\* a classification that never looks at the probe result
WsColorIgnoresWifi(wifi, binance_status, kraken_status) ==
    LET binance_ok == Lower(binance_status) \in BinanceOkPhrases
        kraken_ok == Lower(kraken_status) \in KrakenOkPhrases
    IN  IF binance_ok /\ kraken_ok THEN "GREEN"
        ELSE IF binance_ok \/ kraken_ok THEN "ORANGE"
        ELSE "RED"

\* the colour get_ws_color returns for a cached probe result and the two
\* status strings its module holds
WsColor(wifi, binance_status, kraken_status) ==
    LET binance_ok == Lower(binance_status) \in BinanceOkPhrases
        kraken_ok == Lower(kraken_status) \in KrakenOkPhrases
    IN  IF ~wifi THEN "RED"
        ELSE IF binance_ok /\ kraken_ok THEN "GREEN"
        ELSE IF binance_ok \/ kraken_ok THEN "ORANGE"
        ELSE "RED"

RenderInit ==
    /\ rd = NoRead
    /\ wifi_ok = FALSE
    /\ last_wifi_check = EpochZero
    /\ marquee = [k \in MarqueeKeys |-> None]
    /\ last_marquee_rebuild = EpochZero
    /\ last_known_marquee_prices = [k \in MarqueeKeys |-> None]

notRender == <<tickerVars, streamVars, pollVars, mempoolVars, minerVars>>

\* an interval test that lets the probe run as soon as the interval is reached
gw_checkAtInterval ==
    /\ pc["main"] = "r_ws"
    /\ IF clock - last_wifi_check >= WIFI_CHECK_INTERVAL * TicksPerSecond
       THEN /\ rd' = [rd EXCEPT !.ws_now = clock]
            /\ pc' = [pc EXCEPT !["main"] = "r_probe"]
       ELSE /\ rd' = [rd EXCEPT !.ws_now = clock,
                                !.ws_color = WsColor(wifi_ok, helpers_binance_ws_status,
                                                     helpers_kraken_ws_status),
                                !.ws_seen = <<binance_ws_status, kraken_ws_status>>]
            /\ pc' = [pc EXCEPT !["main"] = "r_mempool"]
    /\ UNCHANGED <<clock, wifi_ok, last_wifi_check, marqueeVars, notRender>>

\* get_ws_color up to the interval test: the probe is due, or the cached result
\* is classified at once
gw_check ==
    /\ pc["main"] = "r_ws"
    /\ IF clock - last_wifi_check > WIFI_CHECK_INTERVAL * TicksPerSecond
       THEN /\ rd' = [rd EXCEPT !.ws_now = clock]
            /\ pc' = [pc EXCEPT !["main"] = "r_probe"]
       ELSE /\ rd' = [rd EXCEPT !.ws_now = clock,
                                !.ws_color = WsColor(wifi_ok, helpers_binance_ws_status,
                                                     helpers_kraken_ws_status),
                                !.ws_seen = <<binance_ws_status, kraken_ws_status>>]
            /\ pc' = [pc EXCEPT !["main"] = "r_mempool"]
    /\ UNCHANGED <<clock, wifi_ok, last_wifi_check, marqueeVars, notRender>>

\* is_wifi_connected (socket.create_connection, timeout 2.5 s) returns, and
\* get_ws_color classifies
gw_probe ==
    /\ pc["main"] = "r_probe"
    /\ \E ok \in BOOLEAN :
          /\ wifi_ok' = ok
          /\ rd' = [rd EXCEPT !.ws_color = WsColor(ok, helpers_binance_ws_status,
                                                   helpers_kraken_ws_status),
                              !.ws_seen = <<binance_ws_status, kraken_ws_status>>]
    /\ last_wifi_check' = rd.ws_now
    /\ pc' = [pc EXCEPT !["main"] = "r_mempool"]
    /\ UNCHANGED <<clock, marqueeVars, notRender>>

get_ws_color == gw_check \/ gw_probe

\* ------------------------------------------------- rendering.run_render_loop
\* data_timeout and marquee_refresh_interval of config.json, in seconds,
\* taken small
DATA_TIMEOUT == 1
MARQUEE_REFRESH_INTERVAL == 1
MainKey == "btcusdt"
\* helpers.last_known_marquee_prices: the dict bound by the import from
\* src.data, which is empty and which nothing mutates; .get(key) is None
HelpersLastKnown == [k \in MarqueeKeys |-> None]

\* now = time.time(); with data_lock:
r_top ==
    /\ pc["main"] = "r_top"
    /\ data_lock = Free
    /\ data_lock' = "main"
    /\ rd' = [NoRead EXCEPT !.now = clock]
    /\ pc' = [pc EXCEPT !["main"] = "r_ticker"]
    /\ UNCHANGED <<clock, wifi_ok, last_wifi_check, marqueeVars, data, upd, klines, ver, nupd,
                   streamVars, pollVars, mempoolVars, minerVars>>

\* ticker = data.get(current_symbol): a reference to the record, and the end
\* of the with block
r_ticker ==
    /\ pc["main"] = "r_ticker"
    /\ data_lock' = Free
    /\ pc' = [pc EXCEPT !["main"] = "r_marquee"]
    /\ UNCHANGED <<clock, renderVars, data, upd, klines, ver, nupd,
                   streamVars, pollVars, mempoolVars, minerVars>>

\* now - last_marquee_rebuild >= MARQUEE_REFRESH_INTERVAL or
\* prices_changed_for_marquee(): the interval has elapsed, or the function is
\* called and takes data_lock
r_marquee ==
    /\ pc["main"] = "r_marquee"
    /\ IF rd.now - last_marquee_rebuild >= MARQUEE_REFRESH_INTERVAL * TicksPerSecond
       THEN /\ pc' = [pc EXCEPT !["main"] = "r_build"]
            /\ UNCHANGED data_lock
       ELSE /\ data_lock = Free
            /\ data_lock' = "main"
            /\ pc' = [pc EXCEPT !["main"] = "r_marquee_cs"]
    /\ UNCHANGED <<clock, renderVars, data, upd, klines, ver, nupd,
                   streamVars, pollVars, mempoolVars, minerVars>>

\* prices_changed_for_marquee: current != previous for some marquee symbol
PricesChanged ==
    \E k \in MarqueeKeys : data[k].last_marquee_price # HelpersLastKnown[k]

\* the loop of prices_changed_for_marquee and the end of its with block
r_marquee_cs ==
    /\ pc["main"] = "r_marquee_cs"
    /\ data_lock' = Free
    /\ pc' = [pc EXCEPT !["main"] = IF PricesChanged THEN "r_build" ELSE "r_miners"]
    /\ UNCHANGED <<clock, renderVars, data, upd, klines, ver, nupd,
                   streamVars, pollVars, mempoolVars, minerVars>>

\* create_marquee_surfaces: with data_lock
r_build ==
    /\ pc["main"] = "r_build"
    /\ data_lock = Free
    /\ data_lock' = "main"
    /\ pc' = [pc EXCEPT !["main"] = "r_build_cs"]
    /\ UNCHANGED <<clock, renderVars, data, upd, klines, ver, nupd,
                   streamVars, pollVars, mempoolVars, minerVars>>

\* an entry shows the price when ticker.price is not None, "---" otherwise
MarqueeEntry(ticker) == ticker.price

\* the for loop of create_marquee_surfaces and the end of its with block
r_build_cs ==
    /\ pc["main"] = "r_build_cs"
    /\ marquee' = [k \in MarqueeKeys |-> MarqueeEntry(data[k])]
    /\ data_lock' = Free
    /\ pc' = [pc EXCEPT !["main"] = "r_known"]
    /\ UNCHANGED <<clock, rd, wifi_ok, last_wifi_check, last_marquee_rebuild,
                   last_known_marquee_prices, data, upd, klines, ver, nupd,
                   streamVars, pollVars, mempoolVars, minerVars>>

\* with data_lock: (line 209)
r_known ==
    /\ pc["main"] = "r_known"
    /\ data_lock = Free
    /\ data_lock' = "main"
    /\ pc' = [pc EXCEPT !["main"] = "r_known_cs"]
    /\ UNCHANGED <<clock, renderVars, data, upd, klines, ver, nupd,
                   streamVars, pollVars, mempoolVars, minerVars>>

\* last_known_marquee_prices = {...} binds the global of rendering; the end
\* of the with block; last_marquee_rebuild = now
r_known_cs ==
    /\ pc["main"] = "r_known_cs"
    /\ last_known_marquee_prices' = [k \in MarqueeKeys |-> data[k].last_marquee_price]
    /\ last_marquee_rebuild' = rd.now
    /\ data_lock' = Free
    /\ pc' = [pc EXCEPT !["main"] = "r_miners"]
    /\ UNCHANGED <<clock, rd, wifi_ok, last_wifi_check, marquee, data, upd, klines,
                   ver, nupd, streamVars, pollVars, mempoolVars, minerVars>>

\* with miners_lock:
r_miners ==
    /\ pc["main"] = "r_miners"
    /\ miners_lock = Free
    /\ miners_lock' = "main"
    /\ pc' = [pc EXCEPT !["main"] = "r_miners_cs"]
    /\ UNCHANGED <<clock, renderVars, tickerVars, streamVars, pollVars, mempoolVars,
                   miner_stats, hash_history, mn, futures>>

\* the four miner_stats fields, and the end of the with block
r_miners_cs ==
    /\ pc["main"] = "r_miners_cs"
    /\ rd' = [rd EXCEPT !.total_hr = miner_stats.total_hashrate_th]
    /\ miners_lock' = Free
    /\ pc' = [pc EXCEPT !["main"] = "r_history"]
    /\ UNCHANGED <<clock, wifi_ok, last_wifi_check, marqueeVars, tickerVars, streamVars,
                   pollVars, mempoolVars, miner_stats, hash_history, mn, futures>>

\* hr_values = list(hash_history) (line 255), after the with block has ended,
\* and the drawing of the curve, the last use of total_hr in the tick;
\* total_miners is the number of configured endpoints and is positive
r_history ==
    /\ pc["main"] = "r_history"
    /\ rd' = [rd EXCEPT !.total_hr = None]
    /\ pc' = [pc EXCEPT !["main"] = "r_ws"]
    /\ UNCHANGED <<clock, wifi_ok, last_wifi_check, marqueeVars, notRender>>

\* with fees_lock: (the main symbol is btcusdt)
\* r_mempool without the wait on fees_lock: the block is entered at once
r_mempoolNoLock ==
    /\ pc["main"] = "r_mempool"
    /\ pc' = [pc EXCEPT !["main"] = "r_mempool_cs"]
    /\ UNCHANGED <<clock, renderVars, tickerVars, streamVars, pollVars, minerVars,
                   mempoolVars>>

\* with fees_lock: (line 289)
r_mempool ==
    /\ pc["main"] = "r_mempool"
    /\ fees_lock = Free
    /\ fees_lock' = "main"
    /\ pc' = [pc EXCEPT !["main"] = "r_mempool_cs"]
    /\ UNCHANGED <<clock, renderVars, tickerVars, streamVars, pollVars, minerVars,
                   mempool_data, mp>>

\* the first two mempool_data.get calls of the with block: fees and height
r_mempool_cs ==
    /\ pc["main"] = "r_mempool_cs"
    /\ rd' = [rd EXCEPT !.net = [NoStats EXCEPT
                     !.fees_sats_vb = mempool_data.fees_sats_vb,
                     !.block_height = mempool_data.block_height]]
    /\ pc' = [pc EXCEPT !["main"] = "r_mempool_cs2"]
    /\ UNCHANGED <<clock, wifi_ok, last_wifi_check, marqueeVars, tickerVars, streamVars, pollVars,
                   minerVars, mempoolVars>>

\* the other three mempool_data.get calls, and the end of the with block
r_mempool_cs2 ==
    /\ pc["main"] = "r_mempool_cs2"
    /\ rd' = [rd EXCEPT !.net = [rd.net EXCEPT
                     !.mining_pool = mempool_data.mining_pool,
                     !.network_hashrate_eh = mempool_data.network_hashrate_eh,
                     !.network_difficulty = mempool_data.network_difficulty]]
    /\ fees_lock' = Free
    /\ pc' = [pc EXCEPT !["main"] = "r_chk"]
    /\ UNCHANGED <<clock, wifi_ok, last_wifi_check, marqueeVars, tickerVars, streamVars, pollVars,
                   minerVars, mempool_data, mp>>

\* ticker.price is not None (line 321), read from the live record
r_chk ==
    /\ pc["main"] = "r_chk"
    /\ IF data[MainKey].price # None
       THEN /\ pc' = [pc EXCEPT !["main"] = "r_chk2"]
            /\ UNCHANGED rd
       ELSE /\ pc' = [pc EXCEPT !["main"] = "r_flip"]
            /\ rd' = [rd EXCEPT !.shown = "placeholder"]
    /\ UNCHANGED <<clock, wifi_ok, last_wifi_check, marqueeVars, notRender>>

\* ticker.last_update is not None and now - ticker.last_update < DATA_TIMEOUT
r_chk2 ==
    /\ pc["main"] = "r_chk2"
    /\ IF /\ data[MainKey].last_update # None
          /\ rd.now - data[MainKey].last_update < DATA_TIMEOUT * TicksPerSecond
       THEN /\ pc' = [pc EXCEPT !["main"] = "r_fmt"]
            /\ rd' = [rd EXCEPT !.last_update = data[MainKey].last_update,
                                !.time_ver = ver[MainKey].time]
       ELSE /\ pc' = [pc EXCEPT !["main"] = "r_flip"]
            /\ rd' = [rd EXCEPT !.shown = "placeholder"]
    /\ UNCHANGED <<clock, wifi_ok, last_wifi_check, marqueeVars, notRender>>

\* price_str = f"${ticker.price:,.2f}" (line 323)
r_fmt ==
    /\ pc["main"] = "r_fmt"
    /\ rd' = [rd EXCEPT !.price = data[MainKey].price, !.price_ver = ver[MainKey].price]
    /\ pc' = [pc EXCEPT !["main"] = "r_candles"]
    /\ UNCHANGED <<clock, wifi_ok, last_wifi_check, marqueeVars, notRender>>

\* candles = list(ticker.candles) + [ticker.current_candle] (lines 336-338)
r_candles ==
    /\ pc["main"] = "r_candles"
    /\ rd' = [rd EXCEPT !.candle_ver = ver[MainKey].candle, !.shown = "price"]
    /\ pc' = [pc EXCEPT !["main"] = "r_flip"]
    /\ UNCHANGED <<clock, wifi_ok, last_wifi_check, marqueeVars, notRender>>

\* pygame.display.flip(); clock.tick(FPS)
r_flip ==
    /\ pc["main"] = "r_flip"
    /\ pc' = [pc EXCEPT !["main"] = "r_top"]
    /\ UNCHANGED <<clock, renderVars, notRender>>

run_render_loop ==
    \/ r_top \/ r_ticker \/ r_marquee \/ r_marquee_cs \/ r_build \/ r_build_cs
    \/ r_known \/ r_known_cs \/ r_miners \/ r_miners_cs \/ r_history
    \/ get_ws_color \/ r_mempool \/ r_mempool_cs \/ r_mempool_cs2
    \/ r_chk \/ r_chk2 \/ r_fmt \/ r_candles \/ r_flip

\* ---------------------------------------- websockets.run_coingecko_polling
COINGECKO_NORMAL == 300
COINGECKO_RATE_LIMIT == 180
COINGECKO_FAILURE == 60
\* random.uniform(0, 30), sampled at its ends and in the middle
Jitters == {0, 15, 30}
HttpErrors == {429, 500}

\* bool(e.response): requests.Response.__bool__ is Response.ok, false for
\* every status raise_for_status raises on
ResponseTruthy(status) == status < 400

\* the except requests.HTTPError branch
HttpErrorBackoff(status, jitter) ==
    IF ResponseTruthy(status) /\ status = 429
    THEN COINGECKO_RATE_LIMIT + jitter
    ELSE COINGECKO_FAILURE

\* COINGECKO_IDS of constants.py: the store key of each configured id
COINGECKO_IDS == [k \in {"runecoin"} |-> "runecoin"]

\* next(k for k, v in COINGECKO_IDS.items() if v == coin_id): the keys the
\* generator yields; next() raises StopIteration when there is none
KeysOf(coin_id) == {k \in DOMAIN COINGECKO_IDS : COINGECKO_IDS[k] = coin_id}

\* the ids a response may carry: the configured one and a foreign one
ResponseIds == {"runecoin", "othercoin"}

\* an entry and its ticker_data.get("usd"). The id of an entry without a price
\* is never looked up and the price of an entry with a foreign id is only
\* tested against None: the foreign entry stands with one price
Entries ==
    {e \in [id : ResponseIds, usd : Prices \cup {None}] :
        KeysOf(e.id) = {} => e.usd = 1}

\* resp.json(): an object, so no id twice, its entries in the order of the body
Responses ==
    {r \in UNION {[1..n -> Entries] : n \in 0..Cardinality(ResponseIds)} :
        \A i, j \in DOMAIN r : i # j => r[i].id # r[j].id}

PollInit ==
    cg = [backoff |-> 1, outcome |-> "none", slept |-> 0, sleptAfter |-> "none",
          result |-> <<>>, unknown |-> FALSE]

notPoll == <<renderVars, streamVars, mempoolVars, minerVars>>

\* time.sleep(backoff) at the top of the loop
cg_sleep ==
    /\ pc["coingecko"] = "cg_sleep"
    /\ cg' = [cg EXCEPT !.slept = cg.backoff, !.sleptAfter = cg.outcome]
    /\ pc' = [pc EXCEPT !["coingecko"] = "cg_fetch"]
    /\ UNCHANGED <<clock, tickerVars, notPoll>>

\* requests.get raises, or the body does not parse: except Exception
cg_error ==
    /\ pc["coingecko"] = "cg_fetch"
    /\ cg' = [cg EXCEPT !.backoff = COINGECKO_FAILURE, !.outcome = "failure",
                        !.unknown = FALSE]
    /\ pc' = [pc EXCEPT !["coingecko"] = "cg_sleep"]
    /\ UNCHANGED <<clock, tickerVars, notPoll>>

\* raise_for_status raises requests.HTTPError
cg_http_error ==
    /\ pc["coingecko"] = "cg_fetch"
    /\ \E status \in HttpErrors, jitter \in Jitters :
          cg' = [cg EXCEPT !.backoff = HttpErrorBackoff(status, jitter),
                           !.outcome = IF status = 429 THEN "rate_limited"
                                       ELSE "failure",
                           !.unknown = FALSE]
    /\ pc' = [pc EXCEPT !["coingecko"] = "cg_sleep"]
    /\ UNCHANGED <<clock, tickerVars, notPoll>>

\* a 200 response with a body that parses: result = resp.json()
cg_response ==
    /\ pc["coingecko"] = "cg_fetch"
    /\ \E result \in Responses :
          /\ nupd + Len(result) <= MaxUpdates
          /\ cg' = [cg EXCEPT !.result = result]
    /\ pc' = [pc EXCEPT !["coingecko"] = "cg_loop"]
    /\ UNCHANGED <<clock, tickerVars, notPoll>>

\* the next entry has a price and a configured id: update_ticker_data
cg_entry ==
    /\ pc["coingecko"] = "cg_loop"
    /\ cg.result # <<>>
    /\ Head(cg.result).usd # None
    /\ KeysOf(Head(cg.result).id) # {}
    /\ \E change \in Changes :
          CallUpdate("coingecko", CHOOSE k \in KeysOf(Head(cg.result).id) : TRUE,
                     Head(cg.result).usd, change, "cg_loop")
    /\ cg' = [cg EXCEPT !.result = Tail(cg.result)]
    /\ UNCHANGED notPoll

\* the next entry has no price: nothing is written
cg_no_price ==
    /\ pc["coingecko"] = "cg_loop"
    /\ cg.result # <<>>
    /\ Head(cg.result).usd = None
    /\ cg' = [cg EXCEPT !.result = Tail(cg.result)]
    /\ UNCHANGED <<clock, pc, tickerVars, notPoll>>

\* cg_unknown_id with the StopIteration escaping the loop: the thread ends
cg_unknown_idEscapes ==
    /\ pc["coingecko"] = "cg_loop"
    /\ cg.result # <<>>
    /\ Head(cg.result).usd # None
    /\ KeysOf(Head(cg.result).id) = {}
    /\ cg' = [cg EXCEPT !.result = <<>>]
    /\ pc' = [pc EXCEPT !["coingecko"] = "cg_ended"]
    /\ UNCHANGED <<clock, tickerVars, notPoll>>

\* the next entry has a price and an id that COINGECKO_IDS does not hold:
\* next() raises StopIteration, caught by except Exception; the entries after
\* it are not visited
cg_unknown_id ==
    /\ pc["coingecko"] = "cg_loop"
    /\ cg.result # <<>>
    /\ Head(cg.result).usd # None
    /\ KeysOf(Head(cg.result).id) = {}
    /\ cg' = [cg EXCEPT !.backoff = COINGECKO_FAILURE, !.outcome = "failure",
                        !.result = <<>>, !.unknown = TRUE]
    /\ pc' = [pc EXCEPT !["coingecko"] = "cg_sleep"]
    /\ UNCHANGED <<clock, tickerVars, notPoll>>

\* backoff = 300 after the loop over the entries
cg_done ==
    /\ pc["coingecko"] = "cg_loop"
    /\ cg.result = <<>>
    /\ cg' = [cg EXCEPT !.backoff = COINGECKO_NORMAL, !.outcome = "success",
                        !.unknown = FALSE]
    /\ pc' = [pc EXCEPT !["coingecko"] = "cg_sleep"]
    /\ UNCHANGED <<clock, tickerVars, notPoll>>

run_coingecko_polling ==
    \/ cg_sleep \/ cg_error \/ cg_http_error \/ cg_response \/ cg_entry
    \/ cg_no_price \/ cg_unknown_id \/ cg_done

\* ------------------------------------------- mempool.run_mempool_polling
Fees == {5}
Heights == {800}
\* pool names, 1 standing for the default "Unknown"
Pools == {1}
Difficulties == {7}
Hashrates == {3}

\* failed: an exception was raised; errored (history): a request of the
\* cycle was answered with an HTTP error status, which nothing in the loop tests
NoLocals == [fees |-> None, height |-> None, pool |-> None, net_diff |-> None,
             net_hr |-> None, failed |-> FALSE, errored |-> FALSE]

\* the answers to GET /api/blocks/tip/height: 200 with a numeric or another
\* body, or an error status, whose body is an error text
HeightResponses ==
    {[ok |-> TRUE, height |-> h] : h \in Heights \cup {None}}
        \cup {[ok |-> FALSE, height |-> None]}

MempoolInit ==
    /\ mempool_data = NoStats
    /\ fees_lock = Free
    /\ mp = NoLocals

notMempool == <<tickerVars, renderVars, streamVars, pollVars, minerVars>>

\* any requests.get or .json() of the cycle raises: except Exception
mp_raise ==
    /\ pc["mempool"] \in {"mp_fees", "mp_height", "mp_hash", "mp_block", "mp_hr"}
    /\ mp' = [mp EXCEPT !.failed = TRUE]
    /\ pc' = [pc EXCEPT !["mempool"] = "mp_lock"]
    /\ UNCHANGED <<clock, mempool_data, fees_lock, notMempool>>

\* fees = float(fees_resp.get("halfHourFee", None)); float(None) raises
mp_fees ==
    /\ pc["mempool"] = "mp_fees"
    /\ \E f \in Fees : mp' = [NoLocals EXCEPT !.fees = f]
    /\ pc' = [pc EXCEPT !["mempool"] = "mp_height"]
    /\ UNCHANGED <<clock, mempool_data, fees_lock, notMempool>>

\* height = int(height_str) if height_str.isdigit() else None; pool = None;
\* net_diff = None; if height: ...
mp_height ==
    /\ pc["mempool"] = "mp_height"
    /\ \E resp \in HeightResponses :
          /\ mp' = [mp EXCEPT !.height = resp.height, !.errored = ~resp.ok]
          /\ pc' = [pc EXCEPT !["mempool"] =
                       IF resp.height # None THEN "mp_hash" ELSE "mp_hr"]
    /\ UNCHANGED <<clock, mempool_data, fees_lock, notMempool>>

\* block_hash = hash_resp.text.strip(); if block_hash: ...
mp_hash ==
    /\ pc["mempool"] = "mp_hash"
    /\ \E empty \in BOOLEAN :
          pc' = [pc EXCEPT !["mempool"] = IF empty THEN "mp_hr" ELSE "mp_block"]
    /\ UNCHANGED <<clock, mempoolVars, notMempool>>

\* pool = ...get("name", "Unknown"); net_diff = block_resp.get("difficulty")
mp_block ==
    /\ pc["mempool"] = "mp_block"
    /\ \E p \in Pools, d \in Difficulties \cup {None} :
          mp' = [mp EXCEPT !.pool = p, !.net_diff = d]
    /\ pc' = [pc EXCEPT !["mempool"] = "mp_hr"]
    /\ UNCHANGED <<clock, mempool_data, fees_lock, notMempool>>

\* net_hr = hr_resp.get("currentHashrate", 0) / 1e18
mp_hr ==
    /\ pc["mempool"] = "mp_hr"
    /\ \E r \in Hashrates : mp' = [mp EXCEPT !.net_hr = r]
    /\ pc' = [pc EXCEPT !["mempool"] = "mp_lock"]
    /\ UNCHANGED <<clock, mempool_data, fees_lock, notMempool>>

\* with fees_lock: in the try block or in the except block
mp_lock ==
    /\ pc["mempool"] = "mp_lock"
    /\ fees_lock = Free
    /\ fees_lock' = "mempool"
    /\ pc' = [pc EXCEPT !["mempool"] = "mp_store"]
    /\ UNCHANGED <<clock, mempool_data, mp, notMempool>>

\* what mempool_data.update writes: the cycle's values, or five None
CycleRecord(l) ==
    IF l.failed THEN NoStats
    ELSE [fees_sats_vb |-> l.fees, block_height |-> l.height, mining_pool |-> l.pool,
          network_hashrate_eh |-> l.net_hr, network_difficulty |-> l.net_diff]

\* mp_store without the end of the with block: fees_lock stays held
mp_storeKeepsLock ==
    /\ pc["mempool"] = "mp_store"
    /\ mempool_data' = CycleRecord(mp)
    /\ pc' = [pc EXCEPT !["mempool"] = "mp_sleep"]
    /\ UNCHANGED <<clock, fees_lock, mp, notMempool>>

\* mempool_data.update({...}) and the end of the with block
mp_store ==
    /\ pc["mempool"] = "mp_store"
    /\ mempool_data' = CycleRecord(mp)
    /\ fees_lock' = Free
    /\ pc' = [pc EXCEPT !["mempool"] = "mp_sleep"]
    /\ UNCHANGED <<clock, mp, notMempool>>

\* time.sleep(25)
mp_sleep ==
    /\ pc["mempool"] = "mp_sleep"
    /\ pc' = [pc EXCEPT !["mempool"] = "mp_fees"]
    /\ UNCHANGED <<clock, mempoolVars, notMempool>>

run_mempool_polling ==
    \/ mp_raise \/ mp_fees \/ mp_height \/ mp_hash \/ mp_block \/ mp_hr
    \/ mp_lock \/ mp_store \/ mp_sleep

\* --------------------------------------------- miners.run_miners_polling
\* hashrates are counted in quarters of a TH/s, so that the threshold 0.25 is 1
NumMiners == 2
Miners == 1..NumMiners
MINER_ACTIVE_THRESHOLD == 1
\* hashRate as the miner API reports it, in GH/s
ApiHashRates == {0, 250, 10000}
ApiBestDiffs == {0, 500}

\* fetch_miner_stats on a response: hashRate / 1000.0 in quarters of a TH/s
MinerOk(hashRate, bestDiff) == <<(hashRate * 4) \div 1000, bestDiff, TRUE>>
\* fetch_miner_stats on any exception
MinerFailed == <<0, 0, FALSE>>

MinerResults ==
    {MinerFailed} \cup {MinerOk(h, d) : h \in ApiHashRates, d \in ApiBestDiffs}

NoAggregate == [total_hashrate_th |-> 0, best_difficulty |-> 0, connected_count |-> 0,
                active_count |-> 0]

\* a reduction that keeps only the result that arrived last
ReduceLastWins(agg, results) ==
    IF results = <<>> THEN agg
    ELSE LET r == results[Len(results)]
         IN  [total_hashrate_th |-> r[1], best_difficulty |-> r[2],
              connected_count |-> (IF r[3] THEN 1 ELSE 0),
              active_count |-> (IF r[1] > MINER_ACTIVE_THRESHOLD THEN 1 ELSE 0)]

\* the for future in as_completed(futures) loop over results in arrival order
RECURSIVE Reduce(_, _)
Reduce(agg, results) ==
    IF results = <<>> THEN agg
    ELSE LET r == Head(results)
         IN  Reduce([total_hashrate_th |-> agg.total_hashrate_th + r[1],
                     best_difficulty |-> Max(agg.best_difficulty, r[2]),
                     connected_count |-> agg.connected_count + (IF r[3] THEN 1 ELSE 0),
                     active_count |-> agg.active_count +
                                      (IF r[1] > MINER_ACTIVE_THRESHOLD THEN 1 ELSE 0)],
                    Tail(results))

Orders == { o \in [Miners -> Miners] : \A i, j \in Miners : i # j => o[i] # o[j] }

MinersInit ==
    /\ miner_stats = NoAggregate
    /\ hash_history = <<>>
    /\ miners_lock = Free
    /\ mn = NoAggregate
    /\ futures = [i \in Miners |-> MinerFailed]

notMiners == <<tickerVars, renderVars, streamVars, pollVars, mempoolVars>>

\* futures = {executor.submit(fetch_miner_stats, ip): ip for ip in miners_ips}
mn_top ==
    /\ pc["miners"] = "mn_top"
    /\ pc' = [pc EXCEPT !["miners"] = "mn_wait"]
    /\ UNCHANGED <<clock, minerVars, notMiners>>

\* mn_wait in which the failure of an endpoint is raised by future.result()
\* and ends the polling thread
mn_waitRaises ==
    /\ pc["miners"] = "mn_wait"
    /\ \E res \in [Miners -> MinerResults], o \in Orders :
          /\ mn' = Reduce(NoAggregate, [i \in Miners |-> res[o[i]]])
          /\ futures' = res
          /\ pc' = [pc EXCEPT !["miners"] =
                       IF \E i \in Miners : ~res[i][3] THEN "mn_raised" ELSE "mn_lock"]
    /\ UNCHANGED <<clock, miner_stats, hash_history, miners_lock, notMiners>>

\* the results arrive in some order and are reduced
mn_wait ==
    /\ pc["miners"] = "mn_wait"
    /\ \E res \in [Miners -> MinerResults], o \in Orders :
          /\ mn' = Reduce(NoAggregate, [i \in Miners |-> res[o[i]]])
          /\ futures' = res
    /\ pc' = [pc EXCEPT !["miners"] = "mn_lock"]
    /\ UNCHANGED <<clock, miner_stats, hash_history, miners_lock, notMiners>>

\* with miners_lock:
mn_lock ==
    /\ pc["miners"] = "mn_lock"
    /\ miners_lock = Free
    /\ miners_lock' = "miners"
    /\ pc' = [pc EXCEPT !["miners"] = "mn_store"]
    /\ UNCHANGED <<clock, miner_stats, hash_history, mn, futures, notMiners>>

\* miner_stats.update({...}); hash_history.append(total_hr); end of the with block
mn_store ==
    /\ pc["miners"] = "mn_store"
    /\ miner_stats' = mn
    /\ hash_history' = DequeAppend(hash_history, mn.total_hashrate_th)
    /\ miners_lock' = Free
    /\ pc' = [pc EXCEPT !["miners"] = "mn_sleep"]
    /\ UNCHANGED <<clock, mn, futures, notMiners>>

\* time.sleep(15)
mn_sleep ==
    /\ pc["miners"] = "mn_sleep"
    /\ pc' = [pc EXCEPT !["miners"] = "mn_top"]
    /\ UNCHANGED <<clock, minerVars, notMiners>>

run_miners_polling == mn_top \/ mn_wait \/ mn_lock \/ mn_store \/ mn_sleep

\* ------------------------------------------------------- specifications
\* the process starts: the main thread is about to bootstrap
Init ==
    /\ pc = [t \in Threads |-> IF t = "main" THEN "fib_ticker" ELSE "unstarted"]
    /\ TickerInit /\ RenderInit /\ StreamInit /\ PollInit /\ MempoolInit /\ MinersInit

\* the workers have just been started after a bootstrap that fetched nothing
InitStarted ==
    /\ pc = StartedPc
    /\ TickerInit /\ RenderInit /\ StreamInit /\ PollInit /\ MempoolInit /\ MinersInit

\* the bootstrap and the Binance stream's ticks: the candle history
NextCandles ==
    \/ Tick
    \/ fetch_initial_binance
    \/ StartThreads
    \/ ws_top("binance") \/ ws_on_open("binance")
    \/ binance_on_message
    \/ update_ticker_data("main") \/ update_ticker_data("binance")

SpecCandles == Init /\ [][NextCandles]_vars

\* the program is started on the last tick of a minute
InitNearMinute ==
    /\ pc = [t \in Threads |-> IF t = "main" THEN "fib_ticker" ELSE "unstarted"]
    /\ TickerInitAt(MinuteEnd)
    /\ RenderInit /\ StreamInit /\ PollInit /\ MempoolInit /\ MinersInit

\* the bootstrap and the Binance stream's ticks across the turn of a minute
NextBootstrap ==
    \/ TickOverMinute
    \/ fetch_initial_binance
    \/ StartThreads
    \/ ws_top("binance") \/ ws_on_open("binance")
    \/ binance_on_message
    \/ update_ticker_data("main") \/ update_ticker_data("binance")

SpecBootstrap == InitNearMinute /\ [][NextBootstrap]_vars

\* the Binance stream's ticks alone, with silences of whole bucket widths
\* between them
NextRollover ==
    \/ Tick \/ Silence
    \/ ws_top("binance") \/ ws_on_open("binance")
    \/ binance_on_message \/ update_ticker_data("binance")

SpecRollover == InitStarted /\ [][NextRollover]_vars

\* the Binance stream's ticks against the render loop's reads
NextRead ==
    \/ fetch_initial_binance
    \/ StartThreads
    \/ ws_top("binance") \/ ws_on_open("binance")
    \/ binance_on_message
    \/ update_ticker_data("main") \/ update_ticker_data("binance")
    \/ run_render_loop

SpecRead == Init /\ [][NextRead]_vars

\* the workers have just been started with a configuration that names no
\* Binance symbol
InitNoBinance ==
    /\ pc = StartedPc
    /\ clock = 0
    /\ data = [k \in Keys |-> TickerData("coingecko")]
    /\ data_lock = Free
    /\ upd = [t \in Threads |-> NoUpd]
    /\ klines = <<>>
    /\ ver = [k \in Keys |-> [price |-> 0, time |-> 0, candle |-> 0, evicted |-> FALSE]]
    /\ nupd = 0
    /\ RenderInit /\ StreamInit /\ PollInit /\ MempoolInit /\ MinersInit

\* the two streaming drivers: connect, fail, sleep, retry; idle without symbols
NextBackoffs == run_binance_websocket \/ run_kraken_websocket

SpecBackoff == (InitStarted \/ InitNoBinance) /\ [][NextBackoffs]_vars

\* the two streams' frames, good and bad, on open connections
NextMessages ==
    \/ ws_top("binance") \/ ws_on_open("binance")
    \/ binance_on_message \/ update_ticker_data("binance")
    \/ ws_message_dropped("binance")
    \/ ws_top("kraken") \/ ws_on_open("kraken")
    \/ ws_message_dropped("kraken")

SpecMessages == InitStarted /\ [][NextMessages]_vars

\* the same drivers with the scheduling of their threads: run_forever returns
\* after an error (the close handler runs), time.sleep returns, and the loop
\* builds the next WebSocketApp; whether a connection opens or fails, and when
\* an open connection breaks, is left to the peer
DriverFairness(d) ==
    /\ WF_vars(ws_on_close(d))
    /\ WF_vars(ws_sleep(d))
    /\ WF_vars(ws_top(d))

SpecBackoffLive ==
    /\ (InitStarted \/ InitNoBinance) /\ [][NextBackoffs]_vars
    /\ \A d \in Drivers : DriverFairness(d)

\* the bootstrap, then one connection of each streaming driver against the
\* render loop
NextHealth ==
    \/ fetch_initial_binance \/ update_ticker_data("main")
    \/ StartThreads
    \/ ws_top("binance") \/ ws_on_open("binance") \/ ws_on_error("binance")
    \/ ws_on_close("binance")
    \/ ws_top("kraken") \/ ws_on_open("kraken") \/ ws_on_error("kraken")
    \/ ws_on_close("kraken")
    \/ run_render_loop

SpecHealth == Init /\ [][NextHealth]_vars

\* the price poller
NextPoll == Tick \/ run_coingecko_polling \/ update_ticker_data("coingecko")

SpecPoll == InitStarted /\ [][NextPoll]_vars

\* the network-stats poller
NextMempool == run_mempool_polling

SpecMempool == InitStarted /\ [][NextMempool]_vars

\* the bootstrap, then the render loop while time passes and no feed writes
NextStale ==
    \/ Tick
    \/ fetch_initial_binance \/ update_ticker_data("main")
    \/ StartThreads
    \/ run_render_loop

SpecStale == Init /\ [][NextStale]_vars

\* the miner poller; its requests time out and its sleep ends, so every step
\* of the loop is eventually taken
NextMiners == run_miners_polling

SpecMiners == InitStarted /\ [][NextMiners]_vars /\ WF_vars(run_miners_polling)

\* the threads app.py starts besides the render loop
Workers == Threads \ {"main"}

\* the render loop has begun and, of the workers, only w has been scheduled
InitSolo(w) ==
    /\ pc = [t \in Threads |-> IF t \in {"main", w} THEN StartedPc[t] ELSE "unstarted"]
    /\ TickerInit /\ RenderInit /\ StreamInit /\ PollInit /\ MempoolInit /\ MinersInit

\* the bootstrap, or the render loop with one worker
InitLocks == Init \/ \E w \in Workers : InitSolo(w)

\* every thread that takes a lock: the bootstrap alone, then each worker in
\* turn against the render loop
NextLocks ==
    \/ fetch_initial_binance \/ update_ticker_data("main")
    \/ run_render_loop
    \/ ws_top("binance") \/ ws_on_open("binance") \/ ws_on_error("binance")
    \/ ws_on_close("binance")
    \/ binance_on_message \/ update_ticker_data("binance")
    \/ ws_top("kraken") \/ ws_on_open("kraken") \/ ws_on_error("kraken")
    \/ ws_on_close("kraken")
    \/ run_coingecko_polling \/ update_ticker_data("coingecko")
    \/ run_mempool_polling
    \/ run_miners_polling

SpecLocks == InitLocks /\ [][NextLocks]_vars

\* ------------------------------------------------------------------ claims
\* C1: when the render loop presents a ticker, the last_update it tested, the
\* price it formats and the open candle it draws were written by the same
\* update_ticker_data call
C1_ConsumerSeesOneUpdate ==
    rd.shown = "price" =>
        /\ rd.price_ver = rd.time_ver
        /\ rd.candle_ver = rd.price_ver

\* C2: with the cached probe result reachable, get_ws_color is GREEN when the
\* callbacks last wrote Live for both drivers and ORANGE when they last wrote
\* Error for exactly one of them and Live for the other
C2_HealthFollowsCallbacks ==
    (rd.ws_color # "none" /\ wifi_ok) =>
        /\ rd.ws_seen = <<"Live", "Live">> => rd.ws_color = "GREEN"
        /\ rd.ws_seen \in {<<"Error", "Live">>, <<"Live", "Error">>}
              => rd.ws_color = "ORANGE"

Present(stats) ==
    /\ stats.fees_sats_vb # None /\ stats.block_height # None
    /\ stats.mining_pool # None /\ stats.network_hashrate_eh # None
    /\ stats.network_difficulty # None

\* C3: after every completed cycle of run_mempool_polling the five fields of
\* mempool_data are all None or all present
C3_StatsAllOrNothing ==
    pc["mempool"] = "mp_sleep" => (mempool_data = NoStats \/ Present(mempool_data))

\* C4: the delay slept after the disconnect of a connection that had opened
\* is the initial 1 s
C4_BackoffResetOnLive ==
    \A d \in Drivers : drv[d].afterLive => drv[d].slept = InitialBackoff

\* min(1.8^j, 120), in units of 5^-9 s
CappedPower(j) ==
    IF j >= 9 THEN BACKOFF_CAP * BackoffUnit
    ELSE Min(Pow(9, j) * Pow(5, 9 - j), BACKOFF_CAP * BackoffUnit)

\* C5: for a driver that has never connected, the delay slept before the k-th
\* retry is min(1.8^(k-1), 120) s; the delays never decrease and never exceed
\* 120 s
C5_BackoffSequence ==
    \A d \in Drivers :
        (~drv[d].opened /\ drv[d].sleeps >= 1 /\ drv[d].sleeps < MaxSleeps) =>
            /\ drv[d].slept = CappedPower(drv[d].sleeps - 1)
            /\ drv[d].slept <= BACKOFF_CAP * BackoffUnit
            /\ drv[d].prev <= drv[d].slept

\* a driver that never connected has slept the capped delay
C5_Witness ==
    \E d \in Drivers :
        /\ ~drv[d].opened
        /\ drv[d].sleeps = 10
        /\ drv[d].slept = BACKOFF_CAP * BackoffUnit
        /\ drv[d].prev < drv[d].slept

\* C6: the delay run_coingecko_polling sleeps is 300 s after a success, between
\* 180 and 210 s after a response with status 429 and 60 s after any other
\* failure
C6_DelayFollowsOutcome ==
    /\ cg.sleptAfter = "success" => cg.slept = COINGECKO_NORMAL
    /\ cg.sleptAfter = "rate_limited" =>
          (cg.slept >= COINGECKO_RATE_LIMIT /\ cg.slept <= COINGECKO_RATE_LIMIT + 30)
    /\ cg.sleptAfter = "failure" => cg.slept = COINGECKO_FAILURE

\* where a thread waits for the network, and where it sleeps
NetPcs ==
    {"fib_ticker", "fib_klines", "binance_connecting", "binance_live",
     "kraken_connecting", "kraken_live", "cg_fetch", "mp_fees", "mp_height",
     "mp_hash", "mp_block", "mp_hr", "mn_wait", "r_probe"}
SleepPcs == {"binance_sleep", "kraken_sleep", "cg_sleep", "mp_sleep", "mn_sleep", "r_flip"}
RenderPcs ==
    {"r_top", "r_ticker", "r_marquee", "r_marquee_cs", "r_build", "r_build_cs",
     "r_known", "r_known_cs", "r_miners", "r_miners_cs", "r_history",
     "r_ws", "r_probe", "r_mempool", "r_mempool_cs", "r_mempool_cs2",
     "r_chk", "r_chk2", "r_fmt",
     "r_candles", "r_flip"}

\* C7: the thread of the render loop is never waiting for the network during
\* a render tick
C7_ConsumerNeverOnNetwork ==
    pc["main"] \in RenderPcs => pc["main"] \notin NetPcs

Holds(t) ==
    {l \in {"data_lock", "miners_lock", "fees_lock"} :
        \/ l = "data_lock" /\ data_lock = t
        \/ l = "miners_lock" /\ miners_lock = t
        \/ l = "fees_lock" /\ fees_lock = t}

\* C8: a thread that waits for the network or sleeps holds none of data_lock,
\* miners_lock and fees_lock
C8_NoLockAcrossIO ==
    \A t \in Threads : pc[t] \in NetPcs \cup SleepPcs => Holds(t) = {}

\* the network-stats poller, having stored a cycle, waits for a response
\* while the render loop is inside the critical section of fees_lock
C8_Witness ==
    /\ pc["mempool"] \in {"mp_fees", "mp_height", "mp_hash", "mp_block", "mp_hr"}
    /\ mempool_data # NoStats
    /\ fees_lock = "main"

WellFormed(c) == c.high >= Max(c.open, c.close) /\ c.low <= Min(c.open, c.close)

\* C9: every closed candle and the open candle of every ticker has
\* high >= max(open, close) and low <= min(open, close), after any sequence of
\* samples applied through update_ticker_data
C9_CandlesWellFormed ==
    \A k \in Keys :
        /\ \A i \in 1..Len(data[k].candles) : WellFormed(data[k].candles[i])
        /\ data[k].current_candle # NoCandle => WellFormed(data[k].current_candle)

\* a candle built from two different prices has been closed by a later sample
C9_Witness ==
    \E k \in Keys :
        /\ Len(data[k].candles) >= 1
        /\ data[k].candles[Len(data[k].candles)].high
              > data[k].candles[Len(data[k].candles)].low
        /\ data[k].candles[Len(data[k].candles)].start = 0
        /\ ver[k].candle >= 3

\* C10: the closed history never holds more than MAX_CANDLES candles, and a
\* push by update_ticker_data appends the candle that was open, dropping the
\* oldest candle, and only it, when the history is full
C10_BoundedFifo ==
    /\ [](\A k \in Keys : Len(data[k].candles) <= MAX_CANDLES)
    /\ [][\A k \in Keys :
            (pc["main"] # "fib_store" /\ data'[k].candles # data[k].candles) =>
                data'[k].candles =
                    (IF Len(data[k].candles) = MAX_CANDLES
                     THEN Tail(data[k].candles)
                     ELSE data[k].candles) \o <<data[k].current_candle>>]_vars

\* an update has pushed a candle onto a full history
C10_Witness ==
    \E k \in Keys : ver[k].evicted /\ Len(data[k].candles) = MAX_CANDLES

RECURSIVE SumHashrate(_, _)
SumHashrate(S, res) ==
    IF S = {} THEN 0
    ELSE LET i == CHOOSE j \in S : TRUE
         IN  res[i][1] + SumHashrate(S \ {i}, res)

RECURSIVE MaxDifficulty(_, _)
MaxDifficulty(S, res) ==
    IF S = {} THEN 0
    ELSE LET i == CHOOSE j \in S : TRUE
         IN  Max(res[i][2], MaxDifficulty(S \ {i}, res))

\* the aggregate of the endpoints S of a cycle, stated without an order
AggregateOver(S, res) ==
    [total_hashrate_th |-> SumHashrate(S, res),
     best_difficulty |-> MaxDifficulty(S, res),
     connected_count |-> Cardinality({i \in S : res[i][3]}),
     active_count |-> Cardinality({i \in S : res[i][1] > MINER_ACTIVE_THRESHOLD})]

\* the endpoint results (10, 500, true), (0, 0, false), (5, 300, true)
ExampleResults == <<MinerOk(10000, 500), MinerFailed, MinerOk(5000, 300)>>
ExampleOrders ==
    { o \in [1..3 -> 1..3] : \A i, j \in 1..3 : i # j => o[i] # o[j] }

\* C11: the aggregate reduced in a cycle, and the one written at its end, is
\* the sum / max / counts of that cycle's endpoint results, each endpoint
\* counted once, whatever the arrival order and the earlier cycles; the
\* results (10,500,true), (0,0,false), (5,300,true) give total 15 TH/s (60
\* quarters), best 500, connected 2, active 2 in every order
C11_AggregateIsPure ==
    /\ pc["miners"] \in {"mn_lock", "mn_store"} => mn = AggregateOver(Miners, futures)
    /\ pc["miners"] = "mn_sleep" => miner_stats = AggregateOver(Miners, futures)
    /\ \A o \in ExampleOrders :
          Reduce(NoAggregate, [i \in 1..3 |-> ExampleResults[o[i]]]) =
              [total_hashrate_th |-> 60, best_difficulty |-> 500,
               connected_count |-> 2, active_count |-> 2]

\* a cycle of two different connected endpoints has been stored after an
\* earlier cycle with another total
C11_Witness ==
    /\ pc["miners"] = "mn_sleep"
    /\ futures[1] # futures[2]
    /\ \A i \in Miners : futures[i][3] /\ futures[i][1] > 0
    /\ Len(hash_history) = 2
    /\ hash_history[1] # hash_history[2]
    /\ hash_history[1] > 0

\* the endpoints of the cycle whose request succeeded
Succeeded == {i \in Miners : futures[i][3]}

\* C12: a failed endpoint adds nothing to the cycle: the aggregate written is
\* that of the endpoints that answered, one hash sample is appended, and the
\* cycle always reaches its sleep and the next cycle always starts
C12_FailedEndpointContained ==
    /\ [](pc["miners"] = "mn_sleep" =>
            /\ miner_stats = AggregateOver(Succeeded, futures)
            /\ miner_stats.connected_count = Cardinality(Succeeded)
            /\ hash_history # <<>>
            /\ hash_history[Len(hash_history)] = miner_stats.total_hashrate_th)
    /\ (pc["miners"] = "mn_wait" ~> pc["miners"] = "mn_sleep")
    /\ (pc["miners"] = "mn_sleep" ~> pc["miners"] = "mn_wait")

\* a cycle in which one endpoint failed and the other answered has been
\* stored, after an earlier cycle
C12_Witness ==
    /\ pc["miners"] = "mn_sleep"
    /\ ~futures[1][3] /\ futures[2][3] /\ futures[2][1] > 0
    /\ miner_stats.connected_count = 1
    /\ Len(hash_history) = 2

\* the status strings the callbacks write, and the initial one
Statuses == {"Connecting...", "Live", "Error", "Reconnecting..."}

\* C13: while the cached probe result is unreachable, the colour get_ws_color
\* returned is RED, and the classification of an unreachable probe is RED for
\* every pair of driver statuses
C13_UnreachableIsCritical ==
    /\ (rd.ws_color # "none" /\ ~wifi_ok) => rd.ws_color = "RED"
    /\ \A b, k \in Statuses : WsColor(FALSE, b, k) = "RED"

\* the probe has failed while both callbacks last wrote Live, and the render
\* loop holds the colour
C13_Witness ==
    /\ ~wifi_ok
    /\ rd.ws_color = "RED"
    /\ rd.ws_seen = <<"Live", "Live">>
    /\ last_wifi_check # EpochZero

\* C14: in a cycle of run_mempool_polling one of whose requests failed (it
\* raised, or it was answered with an error status) no later request is made,
\* and after the cycle the five fields of mempool_data are None
C14_FailureResetsRecord ==
    (mp.failed \/ mp.errored) =>
        /\ pc["mempool"] \notin {"mp_height", "mp_hash", "mp_block", "mp_hr"}
        /\ pc["mempool"] = "mp_sleep" => mempool_data = NoStats

\* the step of thread t that ends update_ticker_data's candle branch
CandleStep(t) == pc[t] = "utd_candle" /\ pc'[t] # "utd_candle"

\* C15: a sample that arrives less than CANDLE_SECONDS after the start of the
\* open candle leaves its open and start, sets high = max(high, price),
\* low = min(low, price), close = price, and leaves the closed history; ticks
\* 50000 then 50500 give open 50000, high 50500, low 50000, close 50500
C15_WidenWithinBucket ==
    /\ WidenCandle(NewCandle(0, 50000), 50500) =
           [start |-> 0, open |-> 50000, high |-> 50500, low |-> 50000, close |-> 50500]
    /\ [][\A t \in Threads :
            LET k == upd[t].key
                cur == data[k].current_candle
            IN  (CandleStep(t) /\ cur # NoCandle /\ upd[t].now - cur.start < CandleTicks) =>
                    /\ data'[k].current_candle.open = cur.open
                    /\ data'[k].current_candle.start = cur.start
                    /\ data'[k].current_candle.high = Max(cur.high, upd[t].price)
                    /\ data'[k].current_candle.low = Min(cur.low, upd[t].price)
                    /\ data'[k].current_candle.close = upd[t].price
                    /\ data'[k].candles = data[k].candles]_vars

\* a tick of the Binance stream at the higher price has widened a candle that
\* was opened at the lower price
C15_Witness ==
    /\ pc["binance"] = "binance_live"
    /\ ver["btcusdt"].candle = upd["binance"].id
    /\ upd["binance"].id >= 2
    /\ upd["binance"].price = 2
    /\ data["btcusdt"].current_candle =
          [start |-> data["btcusdt"].current_candle.start,
           open |-> 1, high |-> 2, low |-> 1, close |-> 2]

\* the failure steps of the feed workers
StreamFailure(d) ==
    /\ pc[d] \in {d \o "_connecting", d \o "_live", d \o "_errored"}
    /\ pc'[d] \in {d \o "_errored", d \o "_sleep"}
    /\ pc'[d] # pc[d]
PollFailure ==
    /\ pc["coingecko"] \in {"cg_fetch", "cg_loop"}
    /\ pc'["coingecko"] = "cg_sleep"
    /\ cg'.outcome # "success"
MempoolFailure ==
    \/ ~mp.failed /\ mp'.failed
    \/ mp.failed /\ pc["mempool"] \in {"mp_lock", "mp_store"}
          /\ pc'["mempool"] # pc["mempool"]
MinerEndpointFailure ==
    /\ pc["miners"] = "mn_wait" /\ pc'["miners"] # "mn_wait"
    /\ \E i \in Miners : ~futures'[i][3]

OthersStay(t) == \A u \in Threads \ {t} : pc'[u] = pc[u]

\* C16: a failure step of a streaming driver, of the price poller, of the
\* network-stats poller or of a miner endpoint changes no store group of
\* another feed, moves no other thread and takes no lock of another feed;
\* the lock the network-stats failure path takes is free again when its
\* cycle sleeps
C16_FailureContained ==
    /\ [][/\ \A d \in Drivers :
              StreamFailure(d) =>
                  /\ UNCHANGED <<data, mempool_data, miner_stats, hash_history,
                                 data_lock, fees_lock, miners_lock, cg>>
                  /\ d = "kraken" => UNCHANGED binance_ws_status
                  /\ d = "binance" => UNCHANGED kraken_ws_status
                  /\ OthersStay(d)
          /\ PollFailure =>
                  /\ UNCHANGED <<data, mempool_data, miner_stats, hash_history,
                                 data_lock, fees_lock, miners_lock,
                                 binance_ws_status, kraken_ws_status>>
                  /\ OthersStay("coingecko")
          /\ MempoolFailure =>
                  /\ UNCHANGED <<data, miner_stats, hash_history, data_lock,
                                 miners_lock, cg, binance_ws_status, kraken_ws_status>>
                  /\ OthersStay("mempool")
          /\ MinerEndpointFailure =>
                  /\ UNCHANGED <<data, mempool_data, data_lock, fees_lock, cg,
                                 binance_ws_status, kraken_ws_status>>
                  /\ OthersStay("miners")]_vars
    /\ [](pc["mempool"] = "mp_sleep" => fees_lock # "mempool")

\* a network-stats cycle has failed and reset the record after the render
\* loop had read a stored record in this tick, and the render loop has moved on
C16_Witness ==
    /\ pc["mempool"] = "mp_sleep"
    /\ mp.failed
    /\ mempool_data = NoStats
    /\ rd.net # NoStats
    /\ pc["main"] \in {"r_chk", "r_chk2", "r_fmt", "r_candles", "r_flip"}

\* a ticker whose price the tick that started at now may present
Fresh(ticker, now) ==
    /\ ticker.price # None
    /\ ticker.last_update # None
    /\ now - ticker.last_update < DATA_TIMEOUT * TicksPerSecond

\* C17: the main panel presents a price only when the price is present and
\* now - last_update < DATA_TIMEOUT, and every marquee entry built in a tick
\* shows a price only for a ticker that is fresh at the tick's now
C17_StaleShownAsAbsent ==
    /\ [](rd.shown = "price" =>
            /\ rd.price # None
            /\ rd.now - rd.last_update < DATA_TIMEOUT * TicksPerSecond)
    /\ [][(pc["main"] = "r_build_cs" /\ pc'["main"] # "r_build_cs") =>
            \A k \in MarqueeKeys : marquee'[k] # None => Fresh(data[k], rd.now)]_vars

\* C18: a streaming driver has no terminal state: from every transport error
\* and every close it reaches the next connection attempt, the delay it
\* sleeps before it being finite and at most 120 s, whatever the number of
\* consecutive failures
C18_DriverNeverStops ==
    /\ \A d \in Drivers :
          (pc[d] \in {d \o "_errored", d \o "_sleep"}) ~> (pc[d] = d \o "_connecting")
    /\ [](\A d \in Drivers :
            /\ backoff[d] >= InitialBackoff
            /\ backoff[d] <= BACKOFF_CAP * BackoffUnit
            /\ pc[d] \in {d \o "_top", d \o "_idle", d \o "_connecting", d \o "_live",
                          d \o "_errored", d \o "_sleep"})

\* a driver attempts a connection again after more failures in a row than it
\* takes the delay to reach the cap
C18_Witness ==
    \E d \in Drivers :
        /\ pc[d] = d \o "_connecting"
        /\ ~drv[d].opened
        /\ drv[d].sleeps = MaxSleeps
        /\ drv[d].prev = BACKOFF_CAP * BackoffUnit
        /\ backoff[d] = BACKOFF_CAP * BackoffUnit

\* C19: a sample that finds no open candle, or an open candle started at
\* least CANDLE_SECONDS before, opens a candle with open = high = low =
\* close = price; the candle that was open, if any, is appended unchanged to
\* the closed history, and it is the only candle appended, however many
\* bucket widths have passed
C19_RolloverClosesOne ==
    [][\A t \in Threads :
         LET k == upd[t].key
             cur == data[k].current_candle
             hist == data[k].candles
             p == upd[t].price
         IN  (CandleStep(t) /\ (cur = NoCandle \/ upd[t].now - cur.start >= CandleTicks)) =>
                 /\ data'[k].current_candle =
                        [start |-> data'[k].current_candle.start,
                         open |-> p, high |-> p, low |-> p, close |-> p]
                 /\ IF cur = NoCandle
                    THEN data'[k].candles = hist
                    ELSE /\ data'[k].candles # <<>>
                         /\ data'[k].candles[Len(data'[k].candles)] = cur
                         /\ SubSeq(data'[k].candles, 1, Len(data'[k].candles) - 1)
                              = IF Len(hist) = MAX_CANDLES THEN Tail(hist) ELSE hist]_vars

\* a tick of the Binance stream arrived two bucket widths or more after the
\* start of the open candle: that candle is the whole closed history
C19_Witness ==
    /\ pc["binance"] = "binance_live"
    /\ ver["btcusdt"].candle = upd["binance"].id
    /\ upd["binance"].id = 2
    /\ Len(data["btcusdt"].candles) = 1
    /\ data["btcusdt"].current_candle.start - data["btcusdt"].candles[1].start
          >= 2 * CandleTicks

\* C20 as stated: every candle opened by update_ticker_data starts at the
\* sample time floored to a multiple of CANDLE_SECONDS
C20_StartBucketAligned ==
    [][\A t \in Threads :
         LET k == upd[t].key
         IN  (CandleStep(t) /\ Rollover(data[k].current_candle, upd[t].now)) =>
                 /\ data'[k].current_candle.start % CandleTicks = 0
                 /\ data'[k].current_candle.start =
                        (upd[t].now \div CandleTicks) * CandleTicks]_vars

\* C20: every candle opened by update_ticker_data starts at the sample time
\* truncated to a whole second, and a later sample falls in the open candle
\* exactly when it is taken less than CANDLE_SECONDS after that start
C20_StartWholeSecond ==
    [][\A t \in Threads :
         LET k == upd[t].key
             cur == data[k].current_candle
             now == upd[t].now
         IN  CandleStep(t) =>
                 /\ Rollover(cur, now) =>
                        /\ data'[k].current_candle.start % TicksPerSecond = 0
                        /\ data'[k].current_candle.start <= now
                        /\ now - data'[k].current_candle.start < TicksPerSecond
                 /\ cur # NoCandle =>
                        ((data'[k].current_candle.start = cur.start
                            /\ data'[k].candles = data[k].candles)
                         <=> now - cur.start < CandleTicks)]_vars

\* a tick of the Binance stream has opened a candle inside a bucket: its start
\* is the second of the sample and not a multiple of CANDLE_SECONDS
C20_Witness ==
    /\ pc["binance"] = "binance_live"
    /\ ver["btcusdt"].candle = upd["binance"].id
    /\ data["btcusdt"].current_candle.start = IntSeconds(upd["binance"].now)
    /\ data["btcusdt"].current_candle.start < upd["binance"].now
    /\ data["btcusdt"].current_candle.start % CandleTicks # 0

\* the start times of a closed history increase strictly
Increasing(q) == \A i \in 1..Len(q) : \A j \in 1..Len(q) : i < j => q[i].start < q[j].start

\* the open candle is not in the closed history, which is in increasing
\* order of start and wholly earlier than the open candle
CandlesOrdered(ticker) ==
    /\ Increasing(ticker.candles)
    /\ ticker.current_candle = NoCandle => ticker.candles = <<>>
    /\ ticker.current_candle # NoCandle =>
          \A i \in 1..Len(ticker.candles) :
              /\ ticker.candles[i] # ticker.current_candle
              /\ ticker.candles[i].start < ticker.current_candle.start

\* C21 as stated: the candles of every ticker are ordered and the open
\* candle's start is not later than the time of the latest update
C21_OpenNotAfterLastUpdate ==
    \A k \in Keys :
        /\ CandlesOrdered(data[k])
        /\ data[k].current_candle # NoCandle =>
              data[k].current_candle.start <= data[k].last_update

\* C21: in every reachable state of a ticker the open candle is not an
\* element of the closed history, the closed candles' starts increase
\* strictly, every closed candle starts before the open candle, and the open
\* candle's start is not later than the current time
C21_CandlesOrdered ==
    \A k \in Keys :
        /\ CandlesOrdered(data[k])
        /\ data[k].current_candle # NoCandle => data[k].current_candle.start <= clock

\* after a bootstrap that crossed the turn of the minute the stream has rolled
\* the bootstrapped bar into a full closed history
C21_Witness ==
    /\ pc["binance"] = "binance_live"
    /\ ver["btcusdt"].candle = upd["binance"].id
    /\ Len(data["btcusdt"].candles) = MAX_CANDLES
    /\ data["btcusdt"].candles[MAX_CANDLES].start = KlineTicks
    /\ data["btcusdt"].current_candle.start = IntSeconds(upd["binance"].now)

\* the candle a historical bar stands for: its open time in seconds and its
\* four prices
IsBar(candle, kline) ==
    /\ candle.start * 1000 = kline[1] * TicksPerSecond
    /\ candle.open = kline[2] /\ candle.high = kline[3]
    /\ candle.low = kline[4] /\ candle.close = kline[5]

\* C22: a bootstrap from n >= 1 bars leaves as closed history the last
\* min(n-1, MAX_CANDLES) of the first n-1 bars, in order, and as open candle
\* the last bar; the history is replaced inside one data_lock block, which
\* no other thread can observe half done
C22_BootstrapReplaces ==
    /\ [](pc["main"] = "fib_store" =>
            /\ data_lock = "main"
            /\ \A t \in Workers : pc[t] = "unstarted")
    /\ [][(pc["main"] = "fib_store" /\ pc'["main"] # "fib_store" /\ klines # <<>>) =>
            LET n == Len(klines)
                m == Min(n - 1, MAX_CANDLES)
                new == data'["btcusdt"]
            IN  /\ Len(new.candles) = m
                /\ \A i \in 1..m : IsBar(new.candles[i], klines[n - 1 - m + i])
                /\ IsBar(new.current_candle, klines[n])
                /\ data_lock' = Free]_vars
    /\ [][\A k \in Keys :
            (pc["main"] \in {"fib_ticker", "fib_klines", "fib_lock"}
               /\ pc'["main"] \in {"fib_ticker", "fib_klines", "fib_lock", "fib_store"})
            => data'[k] = data[k]]_vars

\* the bootstrap has ended with a full closed history of consecutive
\* one-minute bars before the open one
C22_Witness ==
    /\ pc["main"] = "start"
    /\ data_lock = Free
    /\ Len(data["btcusdt"].candles) = MAX_CANDLES
    /\ \A i \in 1..MAX_CANDLES :
          data["btcusdt"].candles[i].start =
              data["btcusdt"].current_candle.start - (MAX_CANDLES + 1 - i) * KlineTicks
    /\ data["btcusdt"].current_candle.open # None

\* the step in which driver d's handler drops a frame
DropStep(d) == drv'[d].dropAt # drv[d].dropAt

\* C23: a frame that fails to parse (no JSON, a missing or non-numeric
\* field, an unknown symbol or pair) leaves every ticker record and both
\* drivers' statuses unchanged, the connection stays Live, and the handler
\* is ready for the next frame
C23_BadFrameDropped ==
    /\ \A m \in BinanceMessages :
          (~m.json \/ m.s \notin Keys \/ m.c \in {None, Unreadable}
             \/ m.P \in {None, Unreadable})
              => ~BinanceParses(m)
    /\ \A m \in KrakenMessages : ~KrakenParses(m)
    /\ [][\A d \in Drivers :
            DropStep(d) =>
                /\ data' = data /\ upd' = upd /\ data_lock' = data_lock
                /\ binance_ws_status' = binance_ws_status
                /\ kraken_ws_status' = kraken_ws_status
                /\ (IF d = "binance" THEN binance_ws_status ELSE kraken_ws_status) = "Live"
                /\ pc'[d] = d \o "_live"]_vars

\* the Binance handler dropped a frame and has since stored a later tick
C23_Witness ==
    /\ drv["binance"].dropAt >= 1
    /\ upd["binance"].id >= drv["binance"].dropAt
    /\ ver["btcusdt"].candle = upd["binance"].id
    /\ pc["binance"] = "binance_live"
    /\ binance_ws_status = "Live"
    /\ drv["kraken"].dropAt >= 1

\* C24: a streaming driver counts as connected only while its latest status
\* is Live: the colour is GREEN only if both drivers have an open connection,
\* and a driver that is Connecting, in Error or Reconnecting is not counted
C24_OkOnlyWhenOpen ==
    /\ rd.ws_color = "GREEN" => rd.ws_seen = <<"Live", "Live">>
    /\ (rd.ws_color = "ORANGE" /\ wifi_ok) => "Live" \in {rd.ws_seen[1], rd.ws_seen[2]}

\* C25: get_ws_color runs the connectivity probe only when more than
\* WIFI_CHECK_INTERVAL seconds have passed since the call that probed last:
\* two consecutive probes are more than the interval apart, a call in
\* between classifies the cached result, and the first call probes
C25_ProbeRateLimited ==
    /\ [](rd.ws_color # "none" => last_wifi_check # EpochZero)
    /\ [][last_wifi_check' # last_wifi_check =>
            /\ pc["main"] = "r_probe"
            /\ last_wifi_check' = rd.ws_now
            /\ last_wifi_check' - last_wifi_check > WIFI_CHECK_INTERVAL * TicksPerSecond]_vars
    /\ [][(pc["main"] = "r_ws" /\ pc'["main"] = "r_mempool") =>
            /\ clock - last_wifi_check <= WIFI_CHECK_INTERVAL * TicksPerSecond
            /\ wifi_ok' = wifi_ok /\ last_wifi_check' = last_wifi_check
            /\ rd'.ws_color # "none"
            /\ ~wifi_ok => rd'.ws_color = "RED"]_vars

\* after a second probe, a later call has used the cached result
C25_Witness ==
    /\ pc["main"] = "r_mempool"
    /\ last_wifi_check > WIFI_CHECK_INTERVAL * TicksPerSecond
    /\ rd.ws_now > last_wifi_check
    /\ rd.ws_color # "none"

\* the status string the callbacks of driver d last wrote
StatusOf(d) == IF d = "binance" THEN binance_ws_status ELSE kraken_ws_status

\* the status changes of driver d in one step, as a pair <<from, to>>
StatusChange(d) == <<StatusOf(d), StatusOf(d)'>>

\* C26 as stated: the status follows only Connecting -> Live, Live -> Error,
\* Live / Error -> Reconnecting, Reconnecting -> Connecting; it is Live only
\* while a connection is open, and Connecting during every connection attempt
C26_StatusMachineAsStated ==
    /\ [][\A d \in Drivers :
            StatusOf(d)' # StatusOf(d) =>
                StatusChange(d) \in
                    {<<"Connecting...", "Live">>, <<"Live", "Error">>,
                     <<"Live", "Reconnecting...">>, <<"Error", "Reconnecting...">>,
                     <<"Reconnecting...", "Connecting...">>}]_vars
    /\ [](\A d \in Drivers :
            /\ StatusOf(d) = "Live" => pc[d] = d \o "_live"
            /\ pc[d] = d \o "_connecting" => StatusOf(d) = "Connecting...")

\* C26: the status follows only Connecting -> Live, Connecting -> Error,
\* Live -> Error, Live / Error -> Reconnecting, Reconnecting -> Live and
\* Reconnecting -> Error; it is Live only while a connection is open, and
\* during a connection attempt that follows a backoff sleep it is still
\* Reconnecting until the connection opens or fails
C26_StatusMachine ==
    /\ [][\A d \in Drivers :
            StatusOf(d)' # StatusOf(d) =>
                StatusChange(d) \in
                    {<<"Connecting...", "Live">>, <<"Connecting...", "Error">>,
                     <<"Live", "Error">>,
                     <<"Live", "Reconnecting...">>, <<"Error", "Reconnecting...">>,
                     <<"Reconnecting...", "Live">>, <<"Reconnecting...", "Error">>}]_vars
    /\ [](\A d \in Drivers :
            /\ StatusOf(d) = "Live" => pc[d] = d \o "_live"
            /\ pc[d] = d \o "_connecting" =>
                  StatusOf(d) = IF drv[d].sleeps = 0 THEN "Connecting..."
                                ELSE "Reconnecting...")

\* a driver whose connection had opened is connecting again after its sleep,
\* its status still Reconnecting
C26_Witness ==
    \E d \in Drivers :
        /\ pc[d] = d \o "_connecting"
        /\ drv[d].opened
        /\ drv[d].sleeps >= 1
        /\ StatusOf(d) = "Reconnecting..."

\* C27: while binance_symbols is empty the Binance driver makes no
\* connection attempt: every iteration only sleeps and computes the set
\* again, backoff and status stay as they were; with a non-empty set the
\* iteration connects
C27_IdleWithoutSymbols ==
    /\ [](BinanceSymbols = {} =>
            /\ pc["binance"] \in {"binance_top", "binance_idle"}
            /\ backoff["binance"] = InitialBackoff
            /\ binance_ws_status = "Connecting..."
            /\ ~drv["binance"].opened /\ drv["binance"].sleeps = 0)
    /\ [][(pc["binance"] = "binance_top" /\ pc'["binance"] # "binance_top") =>
            /\ BinanceSymbols # {} => pc'["binance"] = "binance_connecting"
            /\ BinanceSymbols = {} => pc'["binance"] = "binance_idle"]_vars
    /\ [][pc["binance"] = "binance_idle" =>
            /\ pc'["binance"] \in {"binance_idle", "binance_top"}
            /\ backoff'["binance"] = backoff["binance"]
            /\ binance_ws_status' = binance_ws_status]_vars

\* the Binance driver has slept its idle interval and is computing an empty
\* set again, while the Kraken driver is connected
C27_Witness ==
    /\ BinanceSymbols = {}
    /\ drv["binance"].idled
    /\ pc["binance"] = "binance_top"
    /\ pc["kraken"] = "kraken_live"

\* C28: the aggregate and the hash history a render tick uses come from the
\* same completed cycles (the last sample of the history the tick reads is
\* the total hashrate the tick read, and before the first cycle it reads no
\* sample); the history gains one sample per cycle and never exceeds
\* MAX_CANDLES
C28_AggregateWithHistory ==
    /\ [](Len(hash_history) <= MAX_CANDLES)
    /\ [][(pc["miners"] = "mn_store" /\ pc'["miners"] # "mn_store") =>
            /\ Len(hash_history') = Min(Len(hash_history) + 1, MAX_CANDLES)
            /\ hash_history'[Len(hash_history')] = miner_stats'.total_hashrate_th]_vars
    /\ [][(pc["main"] = "r_history" /\ pc'["main"] # "r_history") =>
            IF hash_history = <<>>
            THEN rd.total_hr = NoAggregate.total_hashrate_th
            ELSE hash_history[Len(hash_history)] = rd.total_hr]_vars


\* ---------------------------------------------------------------- C29
\* the network-stats poller against the render loop, and a price stream
\* against the render loop so that a price is there to present
InitNetStats == InitSolo("mempool") \/ InitSolo("binance")

NextNetStats ==
    \/ run_render_loop
    \/ run_mempool_polling
    \/ ws_top("binance") \/ ws_on_open("binance")
    \/ binance_on_message \/ update_ticker_data("binance")

SpecNetStats == InitNetStats /\ [][NextNetStats]_vars

\* C29: the five network-stats values of one render tick come from one poll
\* cycle: the record changes only in the poller's store step, all five fields
\* at once from that cycle's values and under fees_lock; the render loop holds
\* fees_lock from its first read to its last, ends the read with the record as
\* stored, and keeps these values until the next tick starts
C29_OneCycleRead ==
    /\ [][mempool_data' # mempool_data =>
            /\ pc["mempool"] = "mp_store"
            /\ fees_lock = "mempool"
            /\ mempool_data' = CycleRecord(mp)]_vars
    /\ [](pc["main"] \in {"r_mempool_cs", "r_mempool_cs2"} => fees_lock = "main")
    /\ [][(pc["main"] = "r_mempool_cs2" /\ pc'["main"] # "r_mempool_cs2") =>
            /\ rd'.net = mempool_data
            /\ mempool_data' = mempool_data]_vars
    /\ [][rd'.net # rd.net =>
            pc["main"] \in {"r_mempool_cs", "r_mempool_cs2", "r_top"}]_vars

\* the render loop is between its reads of a record stored by a complete
\* cycle, and the poller waits for fees_lock with the reset of a failed cycle
C29_Witness ==
    /\ pc["main"] = "r_mempool_cs2"
    /\ rd.net.block_height = mempool_data.block_height
    /\ mempool_data.block_height # None
    /\ mempool_data.network_difficulty # None
    /\ pc["mempool"] = "mp_lock"
    /\ mp.failed


\* ---------------------------------------------------------------- C30
\* the poller thread is scheduled again and again: time.sleep returns,
\* requests.get returns or raises within its timeout, data_lock is released
NextFetches == run_coingecko_polling \/ update_ticker_data("coingecko")

SpecPollLive ==
    /\ InitStarted /\ [][NextFetches]_vars
    /\ WF_vars(run_coingecko_polling)
    /\ WF_vars(update_ticker_data("coingecko"))

PollPcs == {"cg_sleep", "cg_fetch", "cg_loop",
            "utd_now", "utd_lock", "utd_head", "utd_time", "utd_candle"}
PollOutcomes == {"success", "rate_limited", "failure"}

\* the head of the remaining entries has a price and an id that is not configured
AtUnknownId ==
    /\ pc["coingecko"] = "cg_loop"
    /\ cg.result # <<>>
    /\ Head(cg.result).usd # None
    /\ KeysOf(Head(cg.result).id) = {}

\* C30: run_coingecko_polling never leaves its loop; after a cycle of any
\* outcome, and from an entry whose id is not configured, it reaches the next
\* fetch; and every entry of a response that has a price is written before
\* the cycle ends as a success: an entry leaves the remaining entries only
\* from their head, one with a price only into a call of update_ticker_data
\* with that price and the key of its id, the call returns to the loop with
\* the price in the store, and the cycle is a success only when no entry remains
C30_PollingNeverEnds ==
    /\ [](pc["coingecko"] \in PollPcs)
    /\ \A o \in PollOutcomes :
          (pc["coingecko"] = "cg_sleep" /\ cg.outcome = o) ~> (pc["coingecko"] = "cg_fetch")
    /\ AtUnknownId ~> (pc["coingecko"] = "cg_fetch")
    /\ [][cg'.result # cg.result =>
            \/ pc["coingecko"] = "cg_fetch" /\ pc'["coingecko"] = "cg_loop"
            \/ /\ cg.result # <<>>
               /\ cg'.result = Tail(cg.result)
               /\ Head(cg.result).usd # None =>
                     /\ pc'["coingecko"] = "utd_now"
                     /\ upd'["coingecko"].price = Head(cg.result).usd
                     /\ upd'["coingecko"].key \in KeysOf(Head(cg.result).id)
                     /\ upd'["coingecko"].ret = "cg_loop"
            \/ /\ cg'.result = <<>>
               /\ cg'.outcome = "failure"
               /\ pc'["coingecko"] = "cg_sleep"]_vars
    /\ [][(pc["coingecko"] = "utd_candle" /\ pc'["coingecko"] # "utd_candle") =>
            /\ pc'["coingecko"] = "cg_loop"
            /\ data'[upd["coingecko"].key].price = upd["coingecko"].price]_vars
    /\ [][(pc["coingecko"] = "cg_loop" /\ pc'["coingecko"] = "cg_sleep"
              /\ cg'.outcome = "success") => cg.result = <<>>]_vars

\* the poller fetches again after a cycle that ended on an entry whose id is
\* not configured, with the price of a configured entry in the store
C30_Witness ==
    /\ pc["coingecko"] = "cg_fetch"
    /\ cg.sleptAfter = "failure"
    /\ cg.unknown
    /\ upd["coingecko"].id = nupd
    /\ nupd > 0
    /\ data["runecoin"].price = upd["coingecko"].price


\* ---------------------------------------------------------------- C31
\* a marquee ticker's published price differs from the price recorded at the
\* last rebuild
PublishedDiffers ==
    \E k \in MarqueeKeys : data[k].last_marquee_price # last_known_marquee_prices[k]

\* C31: between refresh intervals the marquee is rebuilt only when a published
\* price has changed: whenever prices_changed_for_marquee returns true, some
\* marquee ticker's published price differs from the one recorded at the last
\* rebuild
C31_RebuildOnlyOnChange ==
    [][(pc["main"] = "r_marquee_cs" /\ pc'["main"] = "r_build") => PublishedDiffers]_vars


\* ---------------------------------------------------------------- C32
\* where a thread is inside a with block of data_lock, miners_lock, fees_lock
DataPcs ==
    {"fib_store", "utd_head", "utd_time", "utd_candle",
     "r_ticker", "r_marquee_cs", "r_build_cs", "r_known_cs"}
MinersPcs == {"r_miners_cs", "mn_store"}
FeesPcs == {"r_mempool_cs", "r_mempool_cs2", "mp_store"}

\* where a thread waits for a lock
AcquirePcs ==
    {"fib_lock", "utd_lock", "r_top", "r_build", "r_known", "r_miners", "r_mempool",
     "mp_lock", "mn_lock"}

\* every pair of threads that share a lock: the bootstrap alone, then the
\* render loop against a price stream, the network-stats poller and the
\* miner poller in turn
InitContend ==
    Init \/ \E w \in {"binance", "mempool", "miners"} : InitSolo(w)

NextContend ==
    \/ fetch_initial_binance \/ update_ticker_data("main")
    \/ run_render_loop
    \/ ws_top("binance") \/ ws_on_open("binance") \/ ws_on_error("binance")
    \/ ws_on_close("binance")
    \/ binance_on_message \/ update_ticker_data("binance")
    \/ run_mempool_polling
    \/ run_miners_polling

SpecContend == InitContend /\ [][NextContend]_vars

\* the steps of thread t that lie inside a with block
StepOf(t) ==
    CASE t = "main" -> fib_store \/ update_ticker_data("main") \/ run_render_loop
      [] t = "mempool" -> mp_store
      [] t = "miners" -> mn_store
      [] OTHER -> update_ticker_data(t)

\* C32: no thread holds two of data_lock, miners_lock and fees_lock; a thread
\* holds a lock exactly while it is inside a with block of that lock, so that
\* every way out of the block, the exception of the bootstrap included, has
\* released it and no thread waits for a lock while it holds one; a thread
\* inside a with block can always take its next step, and whenever a thread
\* waits for a lock some thread can take a step
C32_LocksReleased ==
    /\ \A t \in Threads :
          /\ ~(data_lock = t /\ miners_lock = t)
          /\ ~(data_lock = t /\ fees_lock = t)
          /\ ~(miners_lock = t /\ fees_lock = t)
          /\ data_lock = t <=> pc[t] \in DataPcs
          /\ miners_lock = t <=> pc[t] \in MinersPcs
          /\ fees_lock = t <=> pc[t] \in FeesPcs
          /\ pc[t] \in DataPcs \cup MinersPcs \cup FeesPcs => ENABLED StepOf(t)
    /\ (\E t \in Threads : pc[t] \in AcquirePcs) => ENABLED NextContend

\* the render loop waits for data_lock while a price stream is inside
\* update_ticker_data with the lock
C32_Witness ==
    /\ pc["main"] \in {"r_top", "r_build", "r_known"}
    /\ data_lock = "binance"
    /\ pc["binance"] = "utd_time"
    /\ ~ENABLED run_render_loop


\* ---------------------------------------------------------------- C33
\* each price feed in turn, alone, with its failures and its reconnects
InitFeeds == \E w \in Drivers \cup {"coingecko"} : InitSolo(w)

NextFeeds ==
    \/ Tick
    \/ ws_top("binance") \/ ws_on_open("binance") \/ ws_on_error("binance")
    \/ ws_on_close("binance") \/ ws_sleep("binance")
    \/ binance_on_message \/ update_ticker_data("binance")
    \/ run_kraken_websocket
    \/ run_coingecko_polling \/ update_ticker_data("coingecko")

SpecFeeds == InitFeeds /\ [][NextFeeds]_vars


\* what a ticker record shows of its feed
Summary(ticker) == <<ticker.status, ticker.price, ticker.change_24h, ticker.last_update>>

\* a thread executes the assignments of update_ticker_data for key k
Updating(k) ==
    \E t \in Threads :
        /\ pc[t] \in {"utd_head", "utd_time"}
        /\ upd[t].key = k
        /\ pc'[t] # pc[t]

\* a driver leaves its sleep or starts a connection again
Reconnect(d) ==
    /\ pc[d] \in {d \o "_sleep", d \o "_top"}
    /\ pc'[d] # pc[d]

\* C33: a ticker record's status is Connecting until its first update and
\* Live ever after; status, price, change and last update time change only in
\* the assignments of update_ticker_data for that key: a driver error, close
\* or reconnect and a poll failure leave them as they are
C33_StatusFollowsUpdates ==
    /\ [](\A k \in Keys :
            data[k].status = IF data[k].price = None THEN "Connecting" ELSE "Live")
    /\ [][\A k \in Keys :
            /\ data[k].status = "Live" => data'[k].status = "Live"
            /\ Summary(data'[k]) # Summary(data[k]) => Updating(k)]_vars
    /\ [][((\E d \in Drivers : StreamFailure(d) \/ Reconnect(d)) \/ PollFailure) =>
            \A k \in Keys : Summary(data'[k]) = Summary(data[k])]_vars

\* the Binance driver connects again after an error that followed an update:
\* the ticker is still Live with the time of that update
C33_Witness ==
    /\ pc["binance"] = "binance_connecting"
    /\ drv["binance"].sleeps > 0
    /\ drv["binance"].afterLive
    /\ data["btcusdt"].status = "Live"
    /\ data["btcusdt"].last_update # None


\* ---------------------------------------------------------------- C34
\* the Binance stream and the price poller side by side, over a few ticks of
\* the clock
MaxOrderClock == 2
TickEarly == clock < MaxOrderClock /\ Tick

NextOrder ==
    \/ TickEarly
    \/ ws_top("binance") \/ ws_on_open("binance")
    \/ binance_on_message \/ update_ticker_data("binance")
    \/ run_coingecko_polling \/ update_ticker_data("coingecko")

SpecOrder == InitStarted /\ [][NextOrder]_vars

UpdatePcs == {"utd_now", "utd_lock", "utd_head", "utd_time", "utd_candle"}

\* the threads whose latest received tick is for key k
Received(k) == {t \in Threads : upd[t].key = k /\ upd[t].id > 0}

\* every tick received for key k has been handled
Handled(k) == \A t \in Received(k) : pc[t] \notin UpdatePcs

\* the thread that received the most recent tick for key k
LastReceiver(k) == CHOOSE t \in Received(k) : \A u \in Received(k) : upd[u].id <= upd[t].id

====
